---- MODULE Spec2Model ----
(***************************************************************************)
(* Background task coordinator of the reading application (App.tsx and     *)
(* AnnotationModal.tsx) and the retrying transport (geminiService.ts).     *)
(*                                                                         *)
(* Texts whose content the code never inspects (notes, replies, comments)  *)
(* are opaque strings; the only thing the code asks of them is whether     *)
(* they are empty.  A topic is a sequence of one-character strings,        *)
(* because summarizeTopic cuts it character by character.                  *)
(* Annotation ids are Date.now() values: the model keeps the number        *)
(* (toString is injective) and a clock that may or may not advance between *)
(* two operations.                                                         *)
(***************************************************************************)
EXTENDS Integers, Sequences, FiniteSets, Bags, TLC

VARIABLES
  now,                     \* Date.now(), in ms
  apiKey,                  \* engineConfig.apiKey || process.env.API_KEY is set
  annotations,             \* App state: Annotation[], newest first
  processingAnnotationIds, \* App state: Set<string>
  isProcessing,            \* App state: legacy flag of executeAIAnnotation
  activeAnnotationId,      \* App state: string | null
  pendingSelection,        \* App state: string | null
  messages,                \* AnnotationModal state: the turns on display
  inflight,                \* bag of the async calls awaiting their provider answer
  created,                 \* observation: annotations created so far
  sent,                    \* observation: modal sends and rewrites so far
  sendsAllowed,            \* observation: how many of them a run may make
  last,                    \* observation: the handler step that ran last
  frPc,                    \* fetchWithRetry: where the call stands
  frRetries,               \* fetchWithRetry: parameter retries of the current level
  frBackoff,               \* fetchWithRetry: parameter backoff of the current level
  frRetries0,              \* fetchWithRetry: retries of the outermost call
  frBackoff0,              \* fetchWithRetry: backoff of the outermost call
  frLog,                   \* fetchWithRetry: status of every fetch() so far, 0 for a network error
  frWaits,                 \* fetchWithRetry: every wait(ms) completed so far
  frAborted,               \* options.signal.aborted
  frResult,                \* fetchWithRetry: what the promise settled with
  adProvider,              \* callAI: config.provider
  adBody,                  \* the body of the Response fetchWithRetry resolved with
  adOutcome,               \* callAI: what the promise settled with
  genFn,                   \* the exported generation function that was called
  genOutcome,              \* what its promise settled with
  imPc,                    \* executePdfImport: where the import stands
  imMode,                  \* executePdfImport: parameter mode
  imEngine,                \* engineConfig: gemini, a vision model, a text-only model
  imPages,                 \* pdf.numPages
  imPage,                  \* the loop variable i of the page loop that runs
  imAborted,               \* signal.aborted of the import's AbortController
  imText,                  \* whether rawTextAccumulator, rawText or extractedText holds text
  imImport,                \* observation: onImport was called, and under which signal
  imRepair,                \* observation: repairTextWithAI was called, and under which signal
  isAutoScanning,          \* App state: a page-change scan is running
  lastScannedPage,         \* lastScannedPageRef.current
  scans,                   \* observation: autonomous scans started so far
  memCounts,               \* per book, the length of its bookAnnotations
  activeBookId,            \* App state: the book that is open
  autoMemoryThreshold,     \* engineConfig.autoMemoryThreshold
  lastConsolidatedCount,   \* lastConsolidatedCountRef.current
  memStarts,               \* observation: the count at every start of consolidateMemory
  memPending,              \* consolidateMemory calls awaiting their answer
  longTermMemory,          \* persona.longTermMemory, as the number of its rewrites
  callArgs,                \* the arguments of a call of a prompt helper
  callResult,              \* what the call returned
  persona,                 \* App state: the active persona
  personas,                \* App state: the list of personas
  consolidations,          \* bag of the personas captured by the runAutoMemory calls in flight
  memoryLog                \* observation: every runAutoMemory that is over

coordVars == <<now, apiKey, annotations, processingAnnotationIds, isProcessing,
               activeAnnotationId, pendingSelection, messages, inflight,
               created, sent, last>>
retryVars == <<frPc, frRetries, frBackoff, frRetries0, frBackoff0, frLog,
               frWaits, frAborted, frResult>>
adapterVars == <<adProvider, adBody, adOutcome, genFn, genOutcome>>
importVars == <<imPc, imMode, imEngine, imPages, imPage, imAborted, imText,
                imImport, imRepair>>
scanVars == <<isAutoScanning, lastScannedPage, scans>>
memoryVars == <<memCounts, activeBookId, autoMemoryThreshold,
                lastConsolidatedCount, memStarts, memPending, longTermMemory>>
helperVars == <<callArgs, callResult>>
personaVars == <<persona, personas, consolidations, memoryLog>>
extVars == <<adapterVars, importVars, scanVars, memoryVars, helperVars,
             personaVars>>
vars == <<now, apiKey, annotations, processingAnnotationIds, isProcessing,
          activeAnnotationId, pendingSelection, messages, inflight,
          created, sent, sendsAllowed, last,
          frPc, frRetries, frBackoff, frRetries0, frBackoff0, frLog,
          frWaits, frAborted, frResult,
          adProvider, adBody, adOutcome, genFn, genOutcome,
          imPc, imMode, imEngine, imPages, imPage, imAborted, imText,
          imImport, imRepair,
          isAutoScanning, lastScannedPage, scans,
          memCounts, activeBookId, autoMemoryThreshold, lastConsolidatedCount,
          memStarts, memPending, longTermMemory,
          callArgs, callResult,
          persona, personas, consolidations, memoryLog>>

----------------------------------------------------------------------------
\* Bounds of the model.

\* the clock runs from 1 to MaxTime
MaxTime == 2

\* at most MaxAnnos annotations are created in one run
MaxAnnos == 2

\* at most MaxSends sends and rewrites are made in the modal in one run
MaxSends == 2

\* at most LiveSends of them in the runs of SpecLive
LiveSends == 1

----------------------------------------------------------------------------
\* Values.

\* activeAnnotationId === null
NoId == 0

\* pendingSelection === null (falsy, like the empty string)
NoSelection == ""

\* topic of the optimistic placeholder
ThinkingTopic == <<"si", "kao", "zhong", ".", ".", ".">>

\* temporary topic of a user note, and summarizeTopic's fallback
DefaultTopic == <<"sui", "xiang">>

\* `text || "..."` of the generation functions
Ellipsis == "..."

\* the fixed fallback turn appended when a chat reply fails
Apology == "apology"

\* `userMessage || "(continue)"`, the message sent on an empty trigger
ContinueMessage == "(continue)"

Selections == {"s1"}
Notes == {"n1"}
Inputs == {"", " ", "u1"}
ProviderTexts == {"", "r1"}
TopicTexts == { <<>>, <<" ", "a", "!", ",", "b">> }

Turn(role, text) == [role |-> role, text |-> text]

\* An async call in flight.  kind: "reply" (chatWithPersona awaited by
\* handleTriggerAIReply), "comment" and "topic" (generateAIAnnotation, then
\* summarizeTopic, awaited by executeAIAnnotation), "usertopic" (summarizeTopic
\* awaited by the background job of handleUserAnnotate).  The other fields are
\* the arguments and locals the continuation closes over; via names the
\* handler that started the call.
Request(kind, id, via, userMessage, context, selection, comment, activeAtTrigger) ==
  [kind |-> kind, id |-> id, via |-> via, userMessage |-> userMessage,
   context |-> context, selection |-> selection, comment |-> comment,
   activeAtTrigger |-> activeAtTrigger]

NoRequest == Request("none", NoId, "none", "", <<>>, "", "", NoId)

\* What the last handler step was: the handler, the call it started or
\* completed, and the text or topic the provider call resolved to.
Event(op, req, text, topic) == [op |-> op, req |-> req, text |-> text, topic |-> topic]

\* a step that started or settled no provider call for an annotation
NoEvent == Event("none", NoRequest, "", <<>>)

----------------------------------------------------------------------------
\* Array helpers.

Ids(annos) == { annos[i].id : i \in 1..Len(annos) }

HasId(annos, id) == \E i \in 1..Len(annos) : annos[i].id = id

\* annotations.find(a => a.id === id): the first match
Find(annos, id) ==
  annos[CHOOSE i \in 1..Len(annos) :
          annos[i].id = id /\ \A j \in 1..(i - 1) : annos[j].id # id]

\* String.prototype.trim on an input
Trim(s) == IF s = " " THEN "" ELSE s

\* every record gets the history
SetEveryChatHistory(annos, id, h) ==
  [i \in 1..Len(annos) |-> [annos[i] EXCEPT !.hasChat = TRUE, !.chatHistory = h]]

\* prev.map(a => a.id === id ? { ...a, chatHistory: h } : a)
SetChatHistory(annos, id, h) ==
  [i \in 1..Len(annos) |->
     IF annos[i].id = id
     THEN [annos[i] EXCEPT !.hasChat = TRUE, !.chatHistory = h]
     ELSE annos[i]]

\* prev.map(a => a.id === id ? { ...a, topic: t } : a)
SetTopic(annos, id, t) ==
  [i \in 1..Len(annos) |->
     IF annos[i].id = id THEN [annos[i] EXCEPT !.topic = t] ELSE annos[i]]

\* nothing is filtered out
KeepAll(annos, id) == annos

\* prev.filter(a => a.id !== id)
RemoveById(annos, id) == SelectSeq(annos, LAMBDA a : a.id # id)

\* the record is taken out and put back in front
MoveToFront(annos, id, anno) == <<anno>> \o SelectSeq(annos, LAMBDA a : a.id # id)

\* the record is replaced, or put in front when it is not there
ReplaceOrInsert(annos, id, anno) ==
  IF \E i \in 1..Len(annos) : annos[i].id = id
  THEN [i \in 1..Len(annos) |-> IF annos[i].id = id THEN anno ELSE annos[i]]
  ELSE <<anno>> \o annos

\* prev.map(a => a.id === id ? finalAnno : a)
ReplaceById(annos, id, anno) ==
  [i \in 1..Len(annos) |-> IF annos[i].id = id THEN anno ELSE annos[i]]

\* one more call awaits its answer
Start(bag, r) == bag (+) SetToBag({r})

\* a call has settled
Settle(bag, r) == bag (-) SetToBag({r})

\* next = new Set(prev); next.delete(id)
DeleteId(set, id) == set \ {id}

\* new Set(prev).add(id)
AddId(set, id) == set \cup {id}

----------------------------------------------------------------------------
\* Pure functions of geminiService.ts.

\* `text || "..."`: what generateAIAnnotation and chatWithPersona return for
\* the text callAI resolved with
OrEllipsis(text) == IF text = "" THEN Ellipsis ELSE text

IsSpace(c) == c = " "

IsSeparator(c) == c \in {",", " "}

IsStripped(c) == c \in {".", ":", "!"}

RECURSIVE TrimStart(_)
TrimStart(t) == IF t # <<>> /\ IsSpace(Head(t)) THEN TrimStart(Tail(t)) ELSE t

RECURSIVE TrimEnd(_)
TrimEnd(t) ==
  IF t # <<>> /\ IsSpace(t[Len(t)]) THEN TrimEnd(SubSeq(t, 1, Len(t) - 1)) ELSE t

\* topic.split(/[,\s]/)[0]
RECURSIVE FirstField(_)
FirstField(t) ==
  IF t = <<>> \/ IsSeparator(Head(t)) THEN <<>> ELSE <<Head(t)>> \o FirstField(Tail(t))

\* what summarizeTopic returns for the text callAI resolved with
SummarizeTopic(text) ==
  LET trimmed == TrimEnd(TrimStart(text))
      field == FirstField(trimmed)
      topic == SelectSeq(field, LAMBDA c : ~IsStripped(c))
  IN IF Len(topic) > 5 THEN SubSeq(topic, 1, 4)
     ELSE IF topic = <<>> THEN DefaultTopic ELSE topic

----------------------------------------------------------------------------
\* AnnotationModal.

\* the turns the modal's effect derives from the annotation it is given
ChatView(a) ==
  IF a.hasChat THEN a.chatHistory
  ELSE <<Turn(IF a.author = "user" THEN "user" ELSE "model", a.comment)>>

\* The modal's `messages` after the render that follows a handler step: the
\* modal is mounted while activeAnnotation exists, and its effect copies the
\* annotation's turns whenever chatHistory, comment or author changed.
\* `local` is what the handler itself left in `messages`, `written` the ids
\* whose chatHistory the step replaced by a new array.
SyncMessages(annosNew, activeNew, local, written) ==
  IF ~HasId(annosNew, activeNew) THEN <<>>
  ELSE IF ~HasId(annotations, activeAnnotationId) THEN ChatView(Find(annosNew, activeNew))
  ELSE LET old == Find(annotations, activeAnnotationId)
           new == Find(annosNew, activeNew)
           sameArray == IF old.hasChat /\ new.hasChat
                        THEN activeNew = activeAnnotationId
                             /\ activeNew \notin written
                             /\ new.chatHistory = old.chatHistory
                        ELSE old.hasChat = new.hasChat
       IN IF sameArray /\ new.comment = old.comment /\ new.author = old.author
          THEN local
          ELSE ChatView(new)

\* isProcessing={processingAnnotationIds.has(activeAnnotation.id)}
ModalIsProcessing == activeAnnotationId \in processingAnnotationIds

ModalOpen == HasId(annotations, activeAnnotationId)

----------------------------------------------------------------------------
\* Initial state: nothing stored, no call in flight.

\* what a fetchWithRetry promise settled with: a Response (its status) or a
\* thrown error (its name)
Settled(how, status, name) == [how |-> how, status |-> status, name |-> name]

NotSettled == Settled("pending", 0, "")

\* no transport call is running
InitRetryIdle ==
  /\ frPc = "idle"
  /\ frRetries = 0
  /\ frBackoff = 0
  /\ frRetries0 = 0
  /\ frBackoff0 = 0
  /\ frLog = <<>>
  /\ frWaits = <<>>
  /\ frAborted = FALSE
  /\ frResult = NotSettled

\* a field of a JSON body: absent, or a string written as a sequence of pieces
Field(present, value) == [present |-> present, value |-> value]

NoField == Field(FALSE, <<>>)

\* a response body: whether it parses as JSON, its error.message, and the reply
\* text it holds (candidates[0].content.parts[0].text or
\* choices[0].message.content)
Body(json, message, text) == [json |-> json, message |-> message, text |-> text]

\* what a callAI promise or a generation function's promise settled with: a
\* returned value or a thrown error (its message)
Outcome(how, value) == [how |-> how, value |-> value]

NoOutcome == Outcome("pending", <<>>)

\* no provider call is made through the adapters
InitAdapterIdle ==
  /\ adProvider = "gemini"
  /\ adBody = Body(FALSE, NoField, NoField)
  /\ adOutcome = NoOutcome
  /\ genFn = "generateAIAnnotation"
  /\ genOutcome = NoOutcome

\* no PDF import is running
InitImportIdle ==
  /\ imPc = "idle"
  /\ imMode = "local"
  /\ imEngine = "gemini"
  /\ imPages = 1
  /\ imPage = 0
  /\ imAborted = FALSE
  /\ imText = FALSE
  /\ imImport = "no"
  /\ imRepair = "no"

\* no page was scanned yet
InitScan ==
  /\ isAutoScanning = FALSE
  /\ lastScannedPage = "none"
  /\ scans = 0

Books == {"A", "B"}

\* no book is open and no memory was consolidated
InitMemoryIdle ==
  /\ memCounts = [b \in Books |-> 0]
  /\ activeBookId = "none"
  /\ autoMemoryThreshold = 0
  /\ lastConsolidatedCount = 0
  /\ memStarts = <<>>
  /\ memPending = 0
  /\ longTermMemory = 0

\* the value a prompt helper returned, or none yet
Returned(done, value) == [done |-> done, value |-> value]

NotReturned == Returned(FALSE, <<>>)

\* no prompt helper is called
InitHelperIdle ==
  /\ callArgs = [fn |-> "none"]
  /\ callResult = NotReturned

\* a persona record, of which the model keeps the id and the long-term memory
Persona(id, memory) == [id |-> id, longTermMemory |-> memory]

PersonaIds == {"P1", "P2"}

\* the long-term memory before any consolidation, and the texts
\* consolidateMemory may return
FirstMemory == "m0"

NewMemories == {"m1", "m2"}

\* the first persona of the list is active and no consolidation runs
InitPersonaIdle ==
  /\ personas = <<Persona("P1", FirstMemory), Persona("P2", FirstMemory)>>
  /\ persona = personas[1]
  /\ consolidations = EmptyBag
  /\ memoryLog = <<>>

InitExtIdle ==
  /\ InitAdapterIdle
  /\ InitImportIdle
  /\ InitScan
  /\ InitMemoryIdle
  /\ InitHelperIdle
  /\ InitPersonaIdle

InitCoordinator ==
  /\ now = 1
  /\ apiKey \in BOOLEAN
  /\ annotations = <<>>
  /\ processingAnnotationIds = {}
  /\ isProcessing = FALSE
  /\ activeAnnotationId = NoId
  /\ pendingSelection = NoSelection
  /\ messages = <<>>
  /\ inflight = EmptyBag
  /\ created = 0
  /\ sent = 0
  /\ last = NoEvent

Init == InitCoordinator /\ sendsAllowed = MaxSends /\ InitRetryIdle /\ InitExtIdle

\* the same, with the send budget of SpecLive
InitLive ==
  InitCoordinator /\ sendsAllowed = LiveSends /\ InitRetryIdle /\ InitExtIdle

----------------------------------------------------------------------------
\* App.tsx handlers.

\* the millisecond clock advances
Tick ==
  /\ now < MaxTime
  /\ now' = now + 1
  /\ UNCHANGED <<apiKey, annotations, processingAnnotationIds, isProcessing,
                 activeAnnotationId, pendingSelection, messages, inflight,
                 created, sent, last>>
  /\ UNCHANGED <<sendsAllowed, retryVars, extVars>>

\* the record executeAIAnnotation inserts before its first await
OptimisticAnno(tempId, selection) ==
  [id |-> tempId, textSelection |-> selection, comment |-> "", author |-> "ai",
   topic |-> ThinkingTopic, hasChat |-> TRUE, chatHistory |-> <<>>]

\* executeAIAnnotation(selection) up to its first await; an active book is open
ExecuteAIAnnotation(selection) ==
  IF isProcessing \/ ~apiKey
  THEN /\ UNCHANGED <<annotations, processingAnnotationIds, isProcessing,
                      activeAnnotationId, messages, inflight, created>>
       /\ last' = NoEvent
  ELSE LET tempId == now
           req == Request("comment", tempId, "annotate", "", <<>>, selection, "",
                          activeAnnotationId)
       IN /\ isProcessing' = TRUE
          /\ annotations' = <<OptimisticAnno(tempId, selection)>> \o annotations
          /\ activeAnnotationId' = tempId
          /\ processingAnnotationIds' = AddId(processingAnnotationIds, tempId)
          /\ inflight' = Start(inflight, req)
          /\ messages' = SyncMessages(annotations', tempId, messages, {})
          /\ created' = created + 1
          /\ last' = Event("executeAIAnnotation", req, "", <<>>)

CanStartAnnotation == isProcessing \/ ~apiKey \/ created < MaxAnnos

\* handleAnnotateSelection(selection, start, end, intent)
HandleAnnotateSelection(selection, intent) ==
  /\ IF intent = "ai"
     THEN /\ CanStartAnnotation
          /\ ExecuteAIAnnotation(selection)
          /\ UNCHANGED pendingSelection
     ELSE /\ pendingSelection' = selection
          /\ last' = NoEvent
          /\ UNCHANGED <<annotations, processingAnnotationIds, isProcessing,
                         activeAnnotationId, messages, inflight, created>>
  /\ UNCHANGED <<now, apiKey, sent>>
  /\ UNCHANGED <<sendsAllowed, retryVars, extVars>>

\* handleAIAnnotate()
HandleAIAnnotate ==
  /\ pendingSelection # NoSelection
  /\ CanStartAnnotation
  /\ pendingSelection' = NoSelection
  /\ ExecuteAIAnnotation(pendingSelection)
  /\ UNCHANGED <<now, apiKey, sent>>
  /\ UNCHANGED <<sendsAllowed, retryVars, extVars>>

\* the record handleUserAnnotate saves
UserAnno(userAnnoId, selection, note) ==
  [id |-> userAnnoId, textSelection |-> selection, comment |-> note,
   author |-> "user", topic |-> DefaultTopic, hasChat |-> TRUE,
   chatHistory |-> <<Turn("user", note)>>]

\* handleUserAnnotate(note) up to the start of its background topic job;
\* without an API key validateAPI() returns false and nothing is saved
HandleUserAnnotate(note) ==
  /\ pendingSelection # NoSelection
  /\ apiKey
  /\ created < MaxAnnos
  /\ LET userAnnoId == now
         req == Request("usertopic", userAnnoId, "note", "", <<>>,
                        pendingSelection, note, activeAnnotationId)
     IN /\ pendingSelection' = NoSelection
        /\ annotations' = <<UserAnno(userAnnoId, pendingSelection, note)>> \o annotations
        /\ activeAnnotationId' = userAnnoId
        /\ inflight' = Start(inflight, req)
        /\ messages' = SyncMessages(annotations', userAnnoId, messages, {})
        /\ created' = created + 1
        /\ last' = Event("handleUserAnnotate", req, "", <<>>)
  /\ UNCHANGED <<now, apiKey, processingAnnotationIds, isProcessing, sent>>
  /\ UNCHANGED <<sendsAllowed, retryVars, extVars>>

\* onClose of the selection dialog: setPendingSelection(null)
ClosePendingSelection ==
  /\ pendingSelection # NoSelection
  /\ pendingSelection' = NoSelection
  /\ last' = NoEvent
  /\ UNCHANGED <<now, apiKey, annotations, processingAnnotationIds, isProcessing,
                 activeAnnotationId, messages, inflight, created, sent>>
  /\ UNCHANGED <<sendsAllowed, retryVars, extVars>>

\* handleSelectAnnotation(id), from the reader or the sidebar
HandleSelectAnnotation(id) ==
  /\ id \in Ids(annotations)
  /\ activeAnnotationId' = id
  /\ messages' = SyncMessages(annotations, id, messages, {})
  /\ last' = NoEvent
  /\ UNCHANGED <<now, apiKey, annotations, processingAnnotationIds, isProcessing,
                 pendingSelection, inflight, created, sent>>
  /\ UNCHANGED <<sendsAllowed, retryVars, extVars>>

\* onClose of the annotation modal: setActiveAnnotationId(null)
CloseAnnotationModal ==
  /\ ModalOpen
  /\ activeAnnotationId' = NoId
  /\ messages' = <<>>
  /\ last' = NoEvent
  /\ UNCHANGED <<now, apiKey, annotations, processingAnnotationIds, isProcessing,
                 pendingSelection, inflight, created, sent>>
  /\ UNCHANGED <<sendsAllowed, retryVars, extVars>>

\* handleDeleteAnnotation(id), confirmed by the user
HandleDeleteAnnotation(id) ==
  /\ id \in Ids(annotations)
  /\ annotations' = RemoveById(annotations, id)
  /\ activeAnnotationId' = IF activeAnnotationId = id THEN NoId ELSE activeAnnotationId
  /\ messages' = SyncMessages(annotations', activeAnnotationId', messages, {})
  /\ last' = NoEvent
  /\ UNCHANGED <<now, apiKey, processingAnnotationIds, isProcessing,
                 pendingSelection, inflight, created, sent>>
  /\ UNCHANGED <<sendsAllowed, retryVars, extVars>>

\* handleUpdateAnnotation(id, { chatHistory })
HandleUpdateAnnotation(id, chatHistory) == SetChatHistory(annotations, id, chatHistory)

\* historyForAI of handleTriggerAIReply
HistoryForAI(userMessage, contextChatHistory) ==
  IF userMessage # ""
  THEN Append(contextChatHistory, Turn("user", userMessage))
  ELSE contextChatHistory

\* the first argument handleTriggerAIReply gives chatWithPersona
MessageSent(userMessage) == IF userMessage # "" THEN userMessage ELSE ContinueMessage

\* the contents chatWithPersona sends: the history it is given, then the
\* message as one more user turn, wrapped in its fixed template
ChatContents(message, chatHistory) ==
  [i \in 1..Len(chatHistory) |->
     [role |-> IF chatHistory[i].role = "user" THEN "user" ELSE "model",
      parts |-> <<chatHistory[i].text>>]]
  \o <<[role |-> "user", parts |-> <<"user: ", message, ".">>]>>

\* handleTriggerAIReply(annotationId, userMessage, contextChatHistory) up to
\* its await; `local` is what the modal left in its own `messages`
HandleTriggerAIReply(annotationId, userMessage, contextChatHistory, via, local) ==
  /\ HasId(annotations, annotationId)
  /\ LET targetAnno == Find(annotations, annotationId)
         historyForAI == HistoryForAI(userMessage, contextChatHistory)
         req == Request("reply", annotationId, via, userMessage,
                        contextChatHistory, targetAnno.textSelection, "",
                        activeAnnotationId)
     IN /\ annotations' = IF userMessage # ""
                          THEN SetChatHistory(annotations, annotationId, historyForAI)
                          ELSE annotations
        /\ processingAnnotationIds' = AddId(processingAnnotationIds, annotationId)
        /\ inflight' = Start(inflight, req)
        /\ messages' = SyncMessages(annotations', activeAnnotationId, local,
                                    IF userMessage # "" THEN {annotationId} ELSE {})
        /\ last' = Event("handleTriggerAIReply", req, "", <<>>)
  /\ sent' = sent + 1
  /\ UNCHANGED <<now, apiKey, isProcessing, activeAnnotationId, pendingSelection, created>>
  /\ UNCHANGED <<sendsAllowed, retryVars, extVars>>

\* AnnotationModal handleSend(triggerAI) with `input` typed in the box
HandleSend(input, triggerAI) ==
  /\ ModalOpen
  /\ ~ModalIsProcessing
  /\ sent < sendsAllowed
  /\ Trim(input) # "" \/ triggerAI
  /\ IF Trim(input) # ""
     THEN LET nextHistory == Append(messages, Turn("user", input))
          IN IF triggerAI
             THEN HandleTriggerAIReply(activeAnnotationId, input, messages,
                                       "send", nextHistory)
             ELSE /\ annotations' = HandleUpdateAnnotation(activeAnnotationId, nextHistory)
                  /\ messages' = SyncMessages(annotations', activeAnnotationId,
                                              nextHistory, {activeAnnotationId})
                  /\ last' = NoEvent
                  /\ sent' = sent + 1
                  /\ UNCHANGED <<now, apiKey, processingAnnotationIds, isProcessing,
                                 activeAnnotationId, pendingSelection, inflight, created>>
                  /\ UNCHANGED <<sendsAllowed, retryVars, extVars>>
     ELSE /\ messages # <<>>
          /\ messages[Len(messages)].role = "user"
          /\ HandleTriggerAIReply(activeAnnotationId, "", messages, "reply", messages)

\* the turns are passed on whole
WholeHistory(msgs) == msgs

\* messages.slice(0, -1)
HistoryWithoutLast(msgs) == SubSeq(msgs, 1, Len(msgs) - 1)

\* AnnotationModal handleRewrite(); its button is rendered on the last turn
\* when that turn is the model's
HandleRewrite ==
  /\ ModalOpen
  /\ ~ModalIsProcessing
  /\ sent < sendsAllowed
  /\ messages # <<>>
  /\ messages[Len(messages)].role = "model"
  /\ LET historyWithoutLast == HistoryWithoutLast(messages)
     IN HandleTriggerAIReply(activeAnnotationId, "", historyWithoutLast,
                             "rewrite", historyWithoutLast)

----------------------------------------------------------------------------
\* Continuations: what runs when an awaited provider call settles.

\* the marker is left where it is
KeepPending(id) == processingAnnotationIds

\* the finally block of handleTriggerAIReply and executeAIAnnotation
Finally(id) == DeleteId(processingAnnotationIds, id)

\* the user turn is appended once more before the model turn
ReplyHistoryWithUserTurnAgain(r, text) ==
  Append(Append(HistoryForAI(r.userMessage, r.context), Turn("user", r.userMessage)),
         Turn("model", text))

\* the history handleTriggerAIReply stores when the call settled: historyForAI
\* followed by a model turn
ReplyHistory(r, text) ==
  Append(HistoryForAI(r.userMessage, r.context), Turn("model", text))

\* handleTriggerAIReply after chatWithPersona resolved; callAI gave `text`
ChatReturns(r, text) ==
  /\ BagIn(r, inflight)
  /\ r.kind = "reply"
  /\ LET reply == OrEllipsis(text)
     IN /\ annotations' = SetChatHistory(annotations, r.id, ReplyHistory(r, reply))
        /\ last' = Event("replySuccess", r, reply, <<>>)
  /\ processingAnnotationIds' = Finally(r.id)
  /\ inflight' = Settle(inflight, r)
  /\ messages' = SyncMessages(annotations', activeAnnotationId, messages, {r.id})
  /\ UNCHANGED <<now, apiKey, isProcessing, activeAnnotationId, pendingSelection,
                 created, sent>>
  /\ UNCHANGED <<sendsAllowed, retryVars, extVars>>

\* handleTriggerAIReply after chatWithPersona rejected
ChatFails(r) ==
  /\ BagIn(r, inflight)
  /\ r.kind = "reply"
  /\ annotations' = SetChatHistory(annotations, r.id, ReplyHistory(r, Apology))
  /\ last' = Event("replyFailure", r, Apology, <<>>)
  /\ processingAnnotationIds' = Finally(r.id)
  /\ inflight' = Settle(inflight, r)
  /\ messages' = SyncMessages(annotations', activeAnnotationId, messages, {r.id})
  /\ UNCHANGED <<now, apiKey, isProcessing, activeAnnotationId, pendingSelection,
                 created, sent>>
  /\ UNCHANGED <<sendsAllowed, retryVars, extVars>>

\* the catch and finally blocks of executeAIAnnotation
Rollback(r) ==
  /\ annotations' = RemoveById(annotations, r.id)
  /\ activeAnnotationId' =
       IF r.activeAtTrigger = r.id THEN NoId ELSE activeAnnotationId
  /\ isProcessing' = FALSE
  /\ processingAnnotationIds' = Finally(r.id)
  /\ inflight' = Settle(inflight, r)
  /\ messages' = SyncMessages(annotations', activeAnnotationId', messages, {})
  /\ last' = Event("annotateFailure", r, "", <<>>)

\* executeAIAnnotation after generateAIAnnotation resolved; callAI gave `text`
CommentReturns(r, text) ==
  /\ BagIn(r, inflight)
  /\ r.kind = "comment"
  /\ LET comment == OrEllipsis(text)
     IN IF comment = ""
        THEN Rollback(r)
        ELSE /\ inflight' = Start(Settle(inflight, r),
                                  [r EXCEPT !.kind = "topic", !.comment = comment])
             /\ last' = Event("commentReturned", r, text, <<>>)
             /\ UNCHANGED <<annotations, processingAnnotationIds, isProcessing,
                            activeAnnotationId, messages>>
  /\ UNCHANGED <<now, apiKey, pendingSelection, created, sent>>
  /\ UNCHANGED <<sendsAllowed, retryVars, extVars>>

\* executeAIAnnotation after generateAIAnnotation or summarizeTopic rejected
AnnotationCallFails(r) ==
  /\ BagIn(r, inflight)
  /\ r.kind \in {"comment", "topic"}
  /\ Rollback(r)
  /\ UNCHANGED <<now, apiKey, pendingSelection, created, sent>>
  /\ UNCHANGED <<sendsAllowed, retryVars, extVars>>

\* the record executeAIAnnotation stores on success
FinalAnno(r, topic) ==
  [id |-> r.id, textSelection |-> r.selection, comment |-> r.comment,
   author |-> "ai", topic |-> topic, hasChat |-> TRUE,
   chatHistory |-> <<Turn("model", r.comment)>>]

\* executeAIAnnotation after summarizeTopic resolved; callAI gave `text`
TopicReturns(r, text) ==
  /\ BagIn(r, inflight)
  /\ r.kind = "topic"
  /\ LET topic == SummarizeTopic(text)
     IN /\ annotations' = ReplaceById(annotations, r.id, FinalAnno(r, topic))
        /\ last' = Event("annotateSuccess", r, r.comment, topic)
  /\ isProcessing' = FALSE
  /\ processingAnnotationIds' = Finally(r.id)
  /\ inflight' = Settle(inflight, r)
  /\ messages' = SyncMessages(annotations', activeAnnotationId, messages, {r.id})
  /\ UNCHANGED <<now, apiKey, activeAnnotationId, pendingSelection, created, sent>>
  /\ UNCHANGED <<sendsAllowed, retryVars, extVars>>

\* the background job of handleUserAnnotate after summarizeTopic resolved
UserTopicReturns(r, text) ==
  /\ BagIn(r, inflight)
  /\ r.kind = "usertopic"
  /\ LET genTopic == SummarizeTopic(text)
     IN /\ annotations' = SetTopic(annotations, r.id, genTopic)
        /\ last' = NoEvent
  /\ inflight' = Settle(inflight, r)
  /\ messages' = SyncMessages(annotations', activeAnnotationId, messages, {})
  /\ UNCHANGED <<now, apiKey, processingAnnotationIds, isProcessing,
                 activeAnnotationId, pendingSelection, created, sent>>
  /\ UNCHANGED <<sendsAllowed, retryVars, extVars>>

\* the background job of handleUserAnnotate after summarizeTopic rejected
UserTopicFails(r) ==
  /\ BagIn(r, inflight)
  /\ r.kind = "usertopic"
  /\ inflight' = Settle(inflight, r)
  /\ last' = NoEvent
  /\ UNCHANGED <<now, apiKey, annotations, processingAnnotationIds, isProcessing,
                 activeAnnotationId, pendingSelection, messages, created, sent>>
  /\ UNCHANGED <<sendsAllowed, retryVars, extVars>>

----------------------------------------------------------------------------
\* The coordinator: every interleaving of handlers and continuations.

Intents == {"ai", "user", "choice"}

Clock == 1..MaxTime

Calls == BagToSet(inflight)

Next ==
  \/ Tick
  \/ \E selection \in Selections, intent \in Intents :
       HandleAnnotateSelection(selection, intent)
  \/ HandleAIAnnotate
  \/ \E note \in Notes : HandleUserAnnotate(note)
  \/ ClosePendingSelection
  \/ \E id \in Clock : HandleSelectAnnotation(id)
  \/ CloseAnnotationModal
  \/ \E id \in Clock : HandleDeleteAnnotation(id)
  \/ \E input \in Inputs, triggerAI \in BOOLEAN : HandleSend(input, triggerAI)
  \/ HandleRewrite
  \/ \E r \in Calls, text \in ProviderTexts : ChatReturns(r, text)
  \/ \E r \in Calls : ChatFails(r)
  \/ \E r \in Calls, text \in ProviderTexts : CommentReturns(r, text)
  \/ \E r \in Calls : AnnotationCallFails(r)
  \/ \E r \in Calls, text \in TopicTexts : TopicReturns(r, text)
  \/ \E r \in Calls, text \in TopicTexts : UserTopicReturns(r, text)
  \/ \E r \in Calls : UserTopicFails(r)

Spec == Init /\ [][Next]_vars

----------------------------------------------------------------------------
\* geminiService.ts: fetchWithRetry(url, options, retries, backoff), one call
\* followed through its recursion.

\* the defaults of the parameters retries and backoff
DefaultRetries == 3
DefaultBackoff == 1000

\* a shorter base delay, to tell the schedule from a constant
ShortBackoff == DefaultBackoff \div 4

\* statuses a provider answers with
Statuses == {200, 404, 429, 503}

\* !response.ok && (response.status === 429 || response.status >= 500)
Retryable(status) == ~(status >= 200 /\ status <= 299) /\ (status = 429 \/ status >= 500)

\* the backoff is handed on as it is
SameBackoff(backoff) == backoff

\* the backoff handed to the next level of the recursion
NextBackoff(backoff) == backoff * 2

InitRetry ==
  /\ InitCoordinator
  /\ sendsAllowed = MaxSends
  /\ frPc = "fetch"
  /\ frRetries0 \in 0..DefaultRetries
  /\ frBackoff0 \in {ShortBackoff, DefaultBackoff}
  /\ frRetries = frRetries0
  /\ frBackoff = frBackoff0
  /\ frLog = <<>>
  /\ frWaits = <<>>
  /\ frAborted \in BOOLEAN
  /\ frResult = NotSettled
  /\ InitExtIdle

\* the caller aborts options.signal
Abort ==
  /\ frPc \in {"fetch", "wait_http", "wait_net"}
  /\ ~frAborted
  /\ frAborted' = TRUE
  /\ UNCHANGED <<frPc, frRetries, frBackoff, frRetries0, frBackoff0, frLog,
                 frWaits, frResult>>
  /\ UNCHANGED <<sendsAllowed, coordVars, extVars>>

\* a budget that never runs out
RetryOnceMore(retries) == retries >= 0

\* `if (retries > 0)`, after a retryable response and after a network error
CanRetry(retries) == retries > 0

\* the recursive call awaited inside the try block
ReturnAwaited == TRUE

\* `return fetchWithRetry(...)` hands the promise of the next level over
\* without awaiting it: a rejection of that promise is not thrown inside the
\* try block of the calling level, whose catch block never sees it
ReturnIsAwaited == FALSE

\* `await fetch(url, options)` resolves with a Response
FetchResponds(status) ==
  /\ frPc = "fetch"
  /\ ~frAborted
  /\ frLog' = Append(frLog, status)
  /\ IF Retryable(status) /\ CanRetry(frRetries)
     THEN /\ frPc' = "wait_http"
          /\ UNCHANGED frResult
     ELSE /\ frPc' = "done"
          /\ frResult' = Settled("resolved", status, "")
  /\ UNCHANGED <<frRetries, frBackoff, frRetries0, frBackoff0, frWaits, frAborted>>
  /\ UNCHANGED <<sendsAllowed, coordVars, extVars>>

\* `await fetch(url, options)` rejects with a network error
FetchThrows ==
  /\ frPc = "fetch"
  /\ ~frAborted
  /\ frLog' = Append(frLog, 0)
  /\ IF CanRetry(frRetries)
     THEN /\ frPc' = "wait_net"
          /\ UNCHANGED <<frResult, frRetries, frBackoff>>
     ELSE IF ReturnIsAwaited /\ frRetries < frRetries0
          THEN \* the catch block of the calling level takes the error
               /\ frPc' = "wait_net"
               /\ frRetries' = frRetries + 1
               /\ frBackoff' = frBackoff \div 2
               /\ UNCHANGED frResult
          ELSE /\ frPc' = "done"
               /\ frResult' = Settled("rejected", 0, "TypeError")
               /\ UNCHANGED <<frRetries, frBackoff>>
  /\ UNCHANGED <<frRetries0, frBackoff0, frWaits, frAborted>>
  /\ UNCHANGED <<sendsAllowed, coordVars, extVars>>

\* no error is taken for a cancellation
NoErrorIsAbort(name) == FALSE

\* error.name === 'AbortError'
IsAbortError(name) == name = "AbortError"

\* `await fetch(url, options)` rejects because the signal is aborted: the
\* catch block rethrows the error it recognizes as a cancellation
FetchAborted ==
  /\ frPc = "fetch"
  /\ frAborted
  /\ IF IsAbortError("AbortError") \/ frRetries = 0
     THEN /\ frPc' = "done"
          /\ frResult' = Settled("rejected", 0, "AbortError")
     ELSE /\ frPc' = "wait_net"
          /\ UNCHANGED frResult
  /\ UNCHANGED <<frRetries, frBackoff, frRetries0, frBackoff0, frLog, frWaits,
                 frAborted>>
  /\ UNCHANGED <<sendsAllowed, coordVars, extVars>>

\* the signal is not looked at
SignalIgnored == FALSE

\* options.signal?.aborted
SignalAborted == frAborted

\* `await wait(backoff)` is over, after a retryable response or a network
\* error: the signal is checked, then the next level is called
WaitElapses ==
  /\ frPc \in {"wait_http", "wait_net"}
  /\ frWaits' = Append(frWaits, frBackoff)
  /\ IF SignalAborted
     THEN /\ frPc' = "done"
          /\ frResult' = Settled("rejected", 0, "AbortError")
          /\ UNCHANGED <<frRetries, frBackoff>>
     ELSE /\ frPc' = "fetch"
          /\ frRetries' = frRetries - 1
          /\ frBackoff' = NextBackoff(frBackoff)
          /\ UNCHANGED frResult
  /\ UNCHANGED <<frRetries0, frBackoff0, frLog, frAborted>>
  /\ UNCHANGED <<sendsAllowed, coordVars, extVars>>

NextRetry ==
  \/ Abort
  \/ \E status \in Statuses : FetchResponds(status)
  \/ FetchThrows
  \/ FetchAborted
  \/ WaitElapses

SpecRetry == InitRetry /\ [][NextRetry]_vars

----------------------------------------------------------------------------
\* geminiService.ts: the adapters callGemini and callOpenAI over
\* fetchWithRetry, and the exported generation functions over callAI.  Texts
\* are sequences of one-character strings; a fixed text of the source is one
\* piece.

Providers == {"gemini", "openai"}

\* the reply texts a provider answers with
ReplyTexts == { <<>>, <<" ">>, <<"o", "k">>, <<"{", "}">>, <<"[", "]">> }

\* the bodies of the final response: not JSON, JSON without error.message,
\* with an empty one, with one, and JSON with no, an empty or some reply text
Bodies ==
  { Body(FALSE, NoField, NoField),
    Body(TRUE, NoField, NoField),
    Body(TRUE, Field(TRUE, <<>>), NoField),
    Body(TRUE, Field(TRUE, <<"q", "u", "o", "t", "a">>), NoField) }
  \cup { Body(TRUE, NoField, Field(TRUE, t)) : t \in ReplyTexts }

\* every response is taken for a success
EveryStatusOk(status) == TRUE

\* response.ok
Ok(status) == status >= 200 /\ status <= 299

\* a JavaScript string in a boolean context
Truthy(field) == field.present /\ field.value # <<>>

\* `await response.json().catch(() => ({}))`, then `errData.error?.message`
ErrorMessage(body) == IF body.json THEN body.message ELSE NoField

\* JSON.stringify(errData)
Stringify(body) ==
  IF body.json /\ body.message.present
  THEN <<"{\"error\":{\"message\":\"">> \o body.message.value \o <<"\"}}">>
  ELSE <<"{}">>

\* `Gemini API Error: ${response.status}`
GeminiGeneric(status) == <<"Gemini API Error: ", ToString(status)>>

\* `OpenAI API Error: ${response.status} - ${JSON.stringify(errData)}`
OpenAIGeneric(status, body) ==
  <<"OpenAI API Error: ", ToString(status), " - ">> \o Stringify(body)

\* `errData.error?.message || <generic text>`
GeminiErrorMessage(status, body) ==
  IF Truthy(ErrorMessage(body)) THEN ErrorMessage(body).value
  ELSE GeminiGeneric(status)

OpenAIErrorMessage(status, body) ==
  IF Truthy(ErrorMessage(body)) THEN ErrorMessage(body).value
  ELSE OpenAIGeneric(status, body)

\* `data.candidates?.[0]?.content?.parts?.[0]?.text || ''` and
\* `data.choices?.[0]?.message?.content || ''`
ReplyText(body) == IF Truthy(body.text) THEN body.text.value ELSE <<>>

\* callGemini, given what fetchWithRetry settled with and the body of the
\* response
CallGemini(result, body) ==
  IF result.how = "rejected" THEN Outcome("thrown", <<result.name>>)
  ELSE IF ~Ok(result.status)
       THEN Outcome("thrown", GeminiErrorMessage(result.status, body))
  ELSE IF ~body.json THEN Outcome("thrown", <<"SyntaxError">>)
  ELSE Outcome("returned", ReplyText(body))

\* callOpenAI, likewise
CallOpenAI(result, body) ==
  IF result.how = "rejected" THEN Outcome("thrown", <<result.name>>)
  ELSE IF ~Ok(result.status)
       THEN Outcome("thrown", OpenAIErrorMessage(result.status, body))
  ELSE IF ~body.json THEN Outcome("thrown", <<"SyntaxError">>)
  ELSE Outcome("returned", ReplyText(body))

\* callAI routes on config.provider
CallAI(provider, result, body) ==
  IF provider = "openai" THEN CallOpenAI(result, body)
  ELSE CallGemini(result, body)

GenerationFunctions ==
  { "generateAIAnnotation", "autonomousScan", "summarizeTopic",
    "chatWithPersona", "generateAIResponseToUserNote",
    "generateLongFormAIReview", "respondToUserBookReview",
    "consolidateMemory", "generateSoulReport" }

\* the fixed texts the generation functions fall back to
EllipsisText == <<"...">>
SpeechlessText == <<"(lost in thought, unable to speak...)">>
UnderstoodText == <<"I see.">>
CannedSoulReport == <<"{summary, keywords, sharedFocus, temporalInsight, emotionalPoint}">>
NoCandidates == <<>>

\* text.trim()
TrimText(text) == TrimEnd(TrimStart(text))

\* cleanJSON: the code fences are removed, then the text is trimmed; the
\* reply texts hold no fence
CleanJSON(text) == TrimText(text)

\* whether JSON.parse accepts the text, over the reply texts
ParsesAsJSON(text) == text \in { <<"{", "}">>, <<"[", "]">> }

\* Array.isArray(JSON.parse(text))
ParsesAsArray(text) == text = <<"[", "]">>

\* `text || fallback`
OrFallback(text, fallback) == IF text = <<>> THEN fallback ELSE text

\* the functions that await callAI without a try block: a rejection of
\* callAI is theirs
Plain(ai, value) == IF ai.how = "thrown" THEN ai ELSE Outcome("returned", value)

\* autonomousScan: the try block around callAI and JSON.parse returns [] from
\* its catch; an array is the sequence of its items
AutonomousScan(ai) ==
  IF ai.how = "thrown" \/ ~ParsesAsJSON(CleanJSON(ai.value))
  THEN Outcome("returned", NoCandidates)
  ELSE IF ParsesAsArray(CleanJSON(ai.value)) THEN Outcome("returned", <<>>)
  ELSE Outcome("returned", <<CleanJSON(ai.value)>>)

\* generateSoulReport: the try block around callAI and JSON.parse returns the
\* canned report from its catch
GenerateSoulReport(ai) ==
  IF ai.how = "thrown" \/ ~ParsesAsJSON(CleanJSON(ai.value))
  THEN Outcome("returned", CannedSoulReport)
  ELSE Outcome("returned", CleanJSON(ai.value))

\* what the generation function fn settles with when callAI settles with ai
Generate(fn, ai) ==
  CASE fn = "generateAIAnnotation" -> Plain(ai, OrFallback(ai.value, EllipsisText))
    [] fn = "chatWithPersona" -> Plain(ai, OrFallback(ai.value, EllipsisText))
    [] fn = "generateAIResponseToUserNote" ->
         Plain(ai, OrFallback(ai.value, EllipsisText))
    [] fn = "generateLongFormAIReview" ->
         Plain(ai, OrFallback(ai.value, SpeechlessText))
    [] fn = "respondToUserBookReview" ->
         Plain(ai, OrFallback(ai.value, UnderstoodText))
    [] fn = "summarizeTopic" -> Plain(ai, SummarizeTopic(ai.value))
    [] fn = "consolidateMemory" -> Plain(ai, TrimText(ai.value))
    [] fn = "autonomousScan" -> AutonomousScan(ai)
    [] fn = "generateSoulReport" -> GenerateSoulReport(ai)

\* a generation function is called with the default retry budget
InitAdapter ==
  /\ InitCoordinator
  /\ sendsAllowed = MaxSends
  /\ frPc = "fetch"
  /\ frRetries0 = DefaultRetries
  /\ frBackoff0 = DefaultBackoff
  /\ frRetries = frRetries0
  /\ frBackoff = frBackoff0
  /\ frLog = <<>>
  /\ frWaits = <<>>
  /\ frAborted \in BOOLEAN
  /\ frResult = NotSettled
  /\ adProvider \in Providers
  /\ adBody \in Bodies
  /\ adOutcome = NoOutcome
  /\ genFn \in GenerationFunctions
  /\ genOutcome = NoOutcome
  /\ InitImportIdle
  /\ InitScan
  /\ InitMemoryIdle
  /\ InitHelperIdle
  /\ InitPersonaIdle

\* `await fetchWithRetry(...)` settles in the adapter, which reads the body
AdapterSettles ==
  /\ frPc = "done"
  /\ adOutcome = NoOutcome
  /\ adOutcome' = CallAI(adProvider, frResult, adBody)
  /\ UNCHANGED <<adProvider, adBody, genFn, genOutcome>>
  /\ UNCHANGED <<sendsAllowed, coordVars, retryVars, importVars, scanVars, memoryVars,
                 helperVars, personaVars>>

\* `await callAI(...)` settles in the generation function
GenerationSettles ==
  /\ adOutcome # NoOutcome
  /\ genOutcome = NoOutcome
  /\ genOutcome' = Generate(genFn, adOutcome)
  /\ UNCHANGED <<adProvider, adBody, adOutcome, genFn>>
  /\ UNCHANGED <<sendsAllowed, coordVars, retryVars, importVars, scanVars, memoryVars,
                 helperVars, personaVars>>

NextAdapter ==
  \/ NextRetry
  \/ AdapterSettles
  \/ GenerationSettles

SpecAdapter == InitAdapter /\ [][NextAdapter]_vars

----------------------------------------------------------------------------
\* LibraryView.tsx: executePdfImport and handleCancelImport.  An action is one
\* run of the function between two awaits; the user's cancel click is
\* handled only while the function is suspended at an await.

\* a PDF of the model has at most MaxPages pages
MaxPages == 2

\* renderPdfToImages(pdf, signal, 20)
VisionPageLimit == 20

\* Math.min(pdf.numPages, 30)
RepairPageLimit == 30

Min(a, b) == IF a < b THEN a ELSE b

ImportModes == {"local", "ai"}

\* engineConfig: provider gemini, another provider with a vision model, another
\* provider with a model taken for text-only (isLikelyTextOnly)
ImportEngines == {"gemini", "vision", "textonly"}

\* what an awaited provider call of the import settles with
CallOutcomes == {"text", "empty", "error", "abort"}

\* the positions where executePdfImport is suspended
ImportAwaits ==
  {"load", "local_page", "gemini", "render_page", "vision", "repair_page",
   "repair"}

InitImport ==
  /\ InitCoordinator
  /\ sendsAllowed = MaxSends
  /\ InitRetryIdle
  /\ InitAdapterIdle
  /\ imPc = "load"
  /\ imMode \in ImportModes
  /\ imEngine \in ImportEngines
  /\ imPages \in 1..MaxPages
  /\ imPage = 0
  /\ imAborted = FALSE
  /\ imText = FALSE
  /\ imImport = "no"
  /\ imRepair = "no"
  /\ InitScan
  /\ InitMemoryIdle
  /\ InitHelperIdle
  /\ InitPersonaIdle

\* under which signal a call is made
UnderSignal == IF imAborted THEN "aborted" ELSE "clean"

\* the function is over: pc is "done" after onImport, "cancelled" after a
\* silent return, "failed" after an alert
Ends(pc) ==
  /\ imPc' = pc
  /\ UNCHANGED <<imPage, imImport, imRepair>>

\* onImport(title, text), then the finally block
CallsOnImport ==
  /\ imPc' = "done"
  /\ imImport' = UnderSignal
  /\ UNCHANGED <<imPage, imRepair>>

\* the first iteration of a page loop starts, in the run of the function that
\* has just seen the signal clean
StartsLoop(pc) ==
  /\ imPc' = pc
  /\ imPage' = 1
  /\ UNCHANGED <<imImport, imRepair>>

\* the next iteration of a page loop starts with `if (signal.aborted) throw
\* new Error("AbortError")`, which every catch block on the way turns into a
\* silent return
NextIteration ==
  IF imAborted THEN Ends("cancelled")
  ELSE /\ imPage' = imPage + 1
       /\ UNCHANGED <<imPc, imImport, imRepair>>

\* `if (signal.aborted) return; if (!extractedText) throw ...;
\* onImport(title, extractedText)` of the AI mode
FinishesAI(text) ==
  IF imAborted THEN Ends("cancelled")
  ELSE IF ~text THEN Ends("failed")
  ELSE CallsOnImport

\* attempt 2 of the AI mode: `if (!extractedText && !signal.aborted)` opens
\* the text-repair fallback
TextRepairOrFinish(text) ==
  IF ~text /\ ~imAborted THEN StartsLoop("repair_page") ELSE FinishesAI(text)

\* handleCancelImport: abortControllerRef.current.abort()
HandleCancelImport ==
  /\ imPc \in ImportAwaits
  /\ ~imAborted
  /\ imAborted' = TRUE
  /\ UNCHANGED <<imPc, imMode, imEngine, imPages, imPage, imText, imImport,
                 imRepair>>
  /\ UNCHANGED <<sendsAllowed, coordVars, retryVars, adapterVars, scanVars, memoryVars,
                 helperVars, personaVars>>

\* the PDF is loaded, or loading fails; then the branch on mode and engine
PdfLoads(ok) ==
  /\ imPc = "load"
  /\ IF ~ok THEN Ends("failed")
     ELSE IF imAborted THEN Ends("cancelled")
     ELSE IF imMode = "local" THEN StartsLoop("local_page")
     ELSE IF ~apiKey THEN Ends("failed")
     ELSE IF imEngine = "gemini"
          THEN imPc' = "gemini" /\ UNCHANGED <<imPage, imImport, imRepair>>
     ELSE IF imEngine = "vision" THEN StartsLoop("render_page")
     ELSE TextRepairOrFinish(FALSE)
  /\ UNCHANGED <<imMode, imEngine, imPages, imAborted, imText>>
  /\ UNCHANGED <<sendsAllowed, coordVars, retryVars, adapterVars, scanVars, memoryVars,
                 helperVars, personaVars>>

\* local mode: page i is read (it holds text or not), or reading it fails
LocalPageRead(ok, hasText) ==
  /\ imPc = "local_page"
  /\ imText' = (ok /\ (imText \/ hasText))
  /\ IF ~ok THEN Ends("failed")
     ELSE IF imPage < imPages THEN NextIteration
     ELSE IF ~imText' THEN Ends("failed")
     ELSE CallsOnImport
  /\ UNCHANGED <<imMode, imEngine, imPages, imAborted>>
  /\ UNCHANGED <<sendsAllowed, coordVars, retryVars, adapterVars, scanVars, memoryVars,
                 helperVars, personaVars>>

\* AI mode, gemini: extractTextFromPDF settles; it throws where it has no text
GeminiSettles(outcome) ==
  /\ imPc = "gemini"
  /\ outcome # "empty"
  /\ outcome = "abort" => imAborted
  /\ imText' = (outcome = "text")
  /\ IF outcome = "abort" THEN Ends("cancelled")
     ELSE IF outcome = "error" THEN Ends("failed")
     ELSE FinishesAI(TRUE)
  /\ UNCHANGED <<imMode, imEngine, imPages, imAborted>>
  /\ UNCHANGED <<sendsAllowed, coordVars, retryVars, adapterVars, scanVars, memoryVars,
                 helperVars, personaVars>>

\* AI mode, attempt 1: renderPdfToImages renders page i, or fails; after the
\* last page processImagesWithAI is called
RenderPage(ok) ==
  /\ imPc = "render_page"
  /\ IF ~ok THEN TextRepairOrFinish(FALSE)
     ELSE IF imPage < Min(imPages, VisionPageLimit) THEN NextIteration
     ELSE imPc' = "vision" /\ UNCHANGED <<imPage, imImport, imRepair>>
  /\ UNCHANGED <<imMode, imEngine, imPages, imAborted, imText>>
  /\ UNCHANGED <<sendsAllowed, coordVars, retryVars, adapterVars, scanVars, memoryVars,
                 helperVars, personaVars>>

\* AI mode, attempt 1: processImagesWithAI settles; an AbortError is rethrown,
\* any other error falls back to text repair
VisionSettles(outcome) ==
  /\ imPc = "vision"
  /\ outcome = "abort" => imAborted
  /\ imText' = (outcome = "text")
  /\ IF outcome = "abort" THEN Ends("cancelled")
     ELSE TextRepairOrFinish(outcome = "text")
  /\ UNCHANGED <<imMode, imEngine, imPages, imAborted>>
  /\ UNCHANGED <<sendsAllowed, coordVars, retryVars, adapterVars, scanVars, memoryVars,
                 helperVars, personaVars>>

\* AI mode, attempt 2: the raw text of page i is read, or reading fails; after
\* the last page repairTextWithAI is called when there is raw text
RepairPage(ok, hasText) ==
  /\ imPc = "repair_page"
  /\ imText' = (ok /\ (imText \/ hasText))
  /\ IF ~ok THEN Ends("failed")
     ELSE IF imPage < Min(imPages, RepairPageLimit) THEN NextIteration
     ELSE IF ~imText' THEN Ends("failed")
     ELSE /\ imPc' = "repair"
          /\ imRepair' = UnderSignal
          /\ UNCHANGED <<imPage, imImport>>
  /\ UNCHANGED <<imMode, imEngine, imPages, imAborted>>
  /\ UNCHANGED <<sendsAllowed, coordVars, retryVars, adapterVars, scanVars, memoryVars,
                 helperVars, personaVars>>

\* AI mode, attempt 2: repairTextWithAI settles
RepairSettles(outcome) ==
  /\ imPc = "repair"
  /\ outcome = "abort" => imAborted
  /\ imText' = (outcome = "text")
  /\ IF outcome = "abort" THEN Ends("cancelled")
     ELSE IF outcome = "error" THEN Ends("failed")
     ELSE FinishesAI(outcome = "text")
  /\ UNCHANGED <<imMode, imEngine, imPages, imAborted>>
  /\ UNCHANGED <<sendsAllowed, coordVars, retryVars, adapterVars, scanVars, memoryVars,
                 helperVars, personaVars>>

NextImport ==
  \/ HandleCancelImport
  \/ \E ok \in BOOLEAN : PdfLoads(ok)
  \/ \E ok, hasText \in BOOLEAN : LocalPageRead(ok, hasText)
  \/ \E outcome \in CallOutcomes : GeminiSettles(outcome)
  \/ \E ok \in BOOLEAN : RenderPage(ok)
  \/ \E outcome \in CallOutcomes : VisionSettles(outcome)
  \/ \E ok, hasText \in BOOLEAN : RepairPage(ok, hasText)
  \/ \E outcome \in CallOutcomes : RepairSettles(outcome)

SpecImport == InitImport /\ [][NextImport]_vars

----------------------------------------------------------------------------
\* App.tsx: the autonomous scans.  handlePageChange scans the page that is
\* shown; handleSaveCreatedBook scans the first paragraph of the saved work
\* from a timer.  One book is open and autonomous reading is switched on.

\* at most MaxScans scans are started in one run
MaxScans == 2

\* a scan returns at most MaxResults candidates
MaxResults == 2

\* the page contents handed to handlePageChange
Pages == {"p1", "p2"}

\* the passages a scan picks
ScanSelections == {"s1", "s2"}

\* what autonomousScan returns: the textSelection of each candidate; [] also
\* stands for a failed scan
ScanResults ==
  UNION { [1..n -> ScanSelections] : n \in 0..MaxResults }

\* array.includes(x)
Includes(array, x) == \E i \in 1..Len(array) : array[i] = x

\* bookAnnotations.map(a => a.textSelection)
ExistingSelections(annos) == [i \in 1..Len(annos) |-> annos[i].textSelection]

\* the record a scan makes of a candidate
ScanAnno(id, selection) ==
  [id |-> id, textSelection |-> selection, comment |-> "c", author |-> "ai",
   topic |-> <<"t">>, hasChat |-> FALSE, chatHistory |-> <<>>]

\* !existingSelections.includes(r.textSelection)
IsNewSelection(existingSelections, selection) ==
  ~Includes(existingSelections, selection)

\* results.forEach((r, idx) => { if (...) newAnnos.push({ id: Date.now() + idx, ... }) })
NewAnnosOfPage(results, existingSelections) ==
  LET indexed == [i \in 1..Len(results) |-> [idx |-> i - 1, selection |-> results[i]]]
      kept == SelectSeq(indexed,
                        LAMBDA x : IsNewSelection(existingSelections, x.selection))
  IN [i \in 1..Len(kept) |-> ScanAnno(now + kept[i].idx, kept[i].selection)]

\* results.map((r, i) => ({ id: Date.now() + i, ... }))
NewAnnosOfCreated(results) ==
  [i \in 1..Len(results) |-> ScanAnno(now + (i - 1), results[i])]

\* handlePageChange(content, ...) up to `await autonomousScan(...)`; the calls
\* that return early change nothing but the progress
HandlePageChange(content) ==
  /\ ~isAutoScanning
  /\ lastScannedPage # content
  /\ apiKey
  /\ scans < MaxScans
  /\ LET req == Request("scan", NoId, "page", "", ExistingSelections(annotations),
                        content, "", NoId)
     IN /\ inflight' = Start(inflight, req)
        /\ last' = Event("handlePageChange", req, "", <<>>)
  /\ isAutoScanning' = TRUE
  /\ lastScannedPage' = content
  /\ scans' = scans + 1
  /\ UNCHANGED <<now, apiKey, annotations, processingAnnotationIds, isProcessing,
                 activeAnnotationId, pendingSelection, messages, created, sent>>
  /\ UNCHANGED <<sendsAllowed, retryVars, adapterVars, importVars, memoryVars,
                 helperVars, personaVars>>

\* handlePageChange after autonomousScan resolved
PageScanReturns(r, results) ==
  /\ BagIn(r, inflight)
  /\ r.kind = "scan" /\ r.via = "page"
  /\ annotations' = NewAnnosOfPage(results, r.context) \o annotations
  /\ isAutoScanning' = FALSE
  /\ inflight' = Settle(inflight, r)
  /\ messages' = SyncMessages(annotations', activeAnnotationId, messages, {})
  /\ last' = Event("pageScan", r, "", <<>>)
  /\ UNCHANGED <<now, apiKey, processingAnnotationIds, isProcessing,
                 activeAnnotationId, pendingSelection, created, sent>>
  /\ UNCHANGED <<lastScannedPage, scans>>
  /\ UNCHANGED <<sendsAllowed, retryVars, adapterVars, importVars, memoryVars,
                 helperVars, personaVars>>

\* handleSaveCreatedBook(title, content, ...): the work is saved and, with an
\* API key, the timer callback calls autonomousScan on its first paragraph
HandleSaveCreatedBook(content) ==
  /\ apiKey
  /\ scans < MaxScans
  /\ LET req == Request("scan", NoId, "created", "", <<>>, content, "", NoId)
     IN /\ inflight' = Start(inflight, req)
        /\ last' = Event("handleSaveCreatedBook", req, "", <<>>)
  /\ scans' = scans + 1
  /\ UNCHANGED <<now, apiKey, annotations, processingAnnotationIds, isProcessing,
                 activeAnnotationId, pendingSelection, messages, created, sent>>
  /\ UNCHANGED <<isAutoScanning, lastScannedPage>>
  /\ UNCHANGED <<sendsAllowed, retryVars, adapterVars, importVars, memoryVars,
                 helperVars, personaVars>>

\* the timer callback of handleSaveCreatedBook after autonomousScan resolved
CreatedScanReturns(r, results) ==
  /\ BagIn(r, inflight)
  /\ r.kind = "scan" /\ r.via = "created"
  /\ annotations' = NewAnnosOfCreated(results) \o annotations
  /\ inflight' = Settle(inflight, r)
  /\ messages' = SyncMessages(annotations', activeAnnotationId, messages, {})
  /\ last' = Event("createdScan", r, "", <<>>)
  /\ UNCHANGED <<now, apiKey, processingAnnotationIds, isProcessing,
                 activeAnnotationId, pendingSelection, created, sent>>
  /\ UNCHANGED <<isAutoScanning, lastScannedPage, scans>>
  /\ UNCHANGED <<sendsAllowed, retryVars, adapterVars, importVars, memoryVars,
                 helperVars, personaVars>>

\* the scans, next to a reader who writes notes and deletes annotations
NextScan ==
  \/ Tick
  \/ \E selection \in Selections : HandleAnnotateSelection(selection, "user")
  \/ \E note \in Notes : HandleUserAnnotate(note)
  \/ \E id \in Clock : HandleDeleteAnnotation(id)
  \/ \E r \in Calls, text \in TopicTexts : UserTopicReturns(r, text)
  \/ \E r \in Calls : UserTopicFails(r)
  \/ \E content \in Pages : HandlePageChange(content)
  \/ \E r \in Calls, results \in ScanResults : PageScanReturns(r, results)
  \/ \E content \in Pages : HandleSaveCreatedBook(content)
  \/ \E r \in Calls, results \in ScanResults : CreatedScanReturns(r, results)

SpecScan == Init /\ [][NextScan]_vars

----------------------------------------------------------------------------
\* App.tsx: the Auto-Memory effect.  React runs the effect after every render
\* in which one of its dependencies changed (bookAnnotations.length, the
\* threshold, activeBook, persona, engineConfig), so every action that changes
\* one of them ends with a run of the effect.

\* a book has at most MaxCount annotations
MaxCount == 4

\* consolidateMemory is started at most MaxStarts times in one run
MaxStarts == 3

\* the values of engineConfig.autoMemoryThreshold; 0 switches the effect off
Thresholds == 0..2

\* the count is taken for new at every run
AlwaysNew(count, lastCount) == TRUE

\* bookAnnotations.length !== lastConsolidatedCountRef.current
NotYetConsolidated(count, lastCount) == count # lastCount

\* the condition of the effect
ShouldConsolidate(threshold, book, count, lastCount, key) ==
  /\ threshold > 0
  /\ book # "none"
  /\ count > 0
  /\ count % threshold = 0
  /\ NotYetConsolidated(count, lastCount)
  /\ key

\* the length of bookAnnotations
BookCount(counts, book) == IF book = "none" THEN 0 ELSE counts[book]

\* a run of the effect on the state the action has produced, with pending
\* calls of consolidateMemory still awaited
AutoMemoryEffect(pending) ==
  LET count == BookCount(memCounts', activeBookId')
  IN IF ShouldConsolidate(autoMemoryThreshold', activeBookId', count,
                          lastConsolidatedCount, apiKey')
     THEN /\ lastConsolidatedCount' = count
          /\ memStarts' = Append(memStarts, count)
          /\ memPending' = pending + 1
     ELSE /\ memPending' = pending
          /\ UNCHANGED <<lastConsolidatedCount, memStarts>>

InitMemory ==
  /\ InitCoordinator
  /\ sendsAllowed = MaxSends
  /\ InitRetryIdle
  /\ InitAdapterIdle
  /\ InitImportIdle
  /\ InitScan
  /\ InitMemoryIdle
  /\ InitHelperIdle
  /\ InitPersonaIdle

\* what the actions of the effect's specification leave alone
MemoryFrame ==
  /\ UNCHANGED <<now, annotations, processingAnnotationIds, isProcessing,
                 activeAnnotationId, pendingSelection, messages, inflight,
                 created, sent, last>>
  /\ UNCHANGED <<sendsAllowed, retryVars, adapterVars, importVars, scanVars,
                 helperVars, personaVars>>

\* an annotation of the open book is saved
AnnotationAdded ==
  /\ Len(memStarts) < MaxStarts
  /\ activeBookId # "none"
  /\ memCounts[activeBookId] < MaxCount
  /\ memCounts' = [memCounts EXCEPT ![activeBookId] = @ + 1]
  /\ UNCHANGED <<apiKey, activeBookId, autoMemoryThreshold, longTermMemory>>
  /\ AutoMemoryEffect(memPending)
  /\ MemoryFrame

\* an annotation of the open book is deleted
AnnotationDeleted ==
  /\ Len(memStarts) < MaxStarts
  /\ activeBookId # "none"
  /\ memCounts[activeBookId] > 0
  /\ memCounts' = [memCounts EXCEPT ![activeBookId] = @ - 1]
  /\ UNCHANGED <<apiKey, activeBookId, autoMemoryThreshold, longTermMemory>>
  /\ AutoMemoryEffect(memPending)
  /\ MemoryFrame

\* setActiveBookId(book)
BookOpened(book) ==
  /\ Len(memStarts) < MaxStarts
  /\ activeBookId # book
  /\ activeBookId' = book
  /\ UNCHANGED <<apiKey, memCounts, autoMemoryThreshold, longTermMemory>>
  /\ AutoMemoryEffect(memPending)
  /\ MemoryFrame

\* setEngineConfig with another autoMemoryThreshold
ThresholdSet(threshold) ==
  /\ Len(memStarts) < MaxStarts
  /\ autoMemoryThreshold # threshold
  /\ autoMemoryThreshold' = threshold
  /\ UNCHANGED <<apiKey, memCounts, activeBookId, longTermMemory>>
  /\ AutoMemoryEffect(memPending)
  /\ MemoryFrame

\* setEngineConfig with the API key entered or removed
ApiKeySet(key) ==
  /\ Len(memStarts) < MaxStarts
  /\ apiKey # key
  /\ apiKey' = key
  /\ UNCHANGED <<memCounts, activeBookId, autoMemoryThreshold, longTermMemory>>
  /\ AutoMemoryEffect(memPending)
  /\ MemoryFrame

\* runAutoMemory after consolidateMemory resolved: setPersona(updatedPersona)
\* changes the persona, and the effect runs again
MemoryReturns ==
  /\ memPending > 0
  /\ longTermMemory' = longTermMemory + 1
  /\ UNCHANGED <<apiKey, memCounts, activeBookId, autoMemoryThreshold>>
  /\ AutoMemoryEffect(memPending - 1)
  /\ MemoryFrame

\* runAutoMemory after consolidateMemory rejected: the error is logged
MemoryFails ==
  /\ memPending > 0
  /\ memPending' = memPending - 1
  /\ UNCHANGED <<apiKey, memCounts, activeBookId, autoMemoryThreshold,
                 lastConsolidatedCount, memStarts, longTermMemory>>
  /\ MemoryFrame

NextMemory ==
  \/ AnnotationAdded
  \/ AnnotationDeleted
  \/ \E book \in Books : BookOpened(book)
  \/ \E threshold \in Thresholds : ThresholdSet(threshold)
  \/ \E key \in BOOLEAN : ApiKeySet(key)
  \/ MemoryReturns
  \/ MemoryFails

SpecMemory == InitMemory /\ [][NextMemory]_vars

----------------------------------------------------------------------------
\* geminiService.ts: the prompt helpers getContext and formatShortTermMemory.
\* A text is a sequence of one-character strings.

\* the head of a text of the model has at most MaxHead characters, a target at
\* most MaxTarget
MaxHead == 4
MaxTarget == 2

\* the characters after the target that getContext keeps
PostContextChars == 200

\* the lookback the callers ask for
DefaultLookback == 2000

\* a text is tried with tails this much shorter and longer than the
\* post-context
TailSlack == 1

Max(a, b) == IF a > b THEN a ELSE b

Alphabet == {"a", " ", "\n"}

\* the character c, n times
Run(c, n) == [i \in 1..n |-> c]

TextsUpTo(n) == UNION { [1..k -> Alphabet] : k \in 0..n }

\* the texts given to getContext: every short head, alone or followed by a
\* tail about as long as the post-context
FullTexts ==
  { head \o tail :
      head \in TextsUpTo(MaxHead),
      tail \in { <<>>, Run("x", PostContextChars - TailSlack),
                 Run("x", PostContextChars + TailSlack) } }

Lookbacks == {0, 1, 2, DefaultLookback}

\* target is in text at the 0-based index i
OccursAt(text, target, i) ==
  /\ i >= 0
  /\ i + Len(target) <= Len(text)
  /\ SubSeq(text, i + 1, i + Len(target)) = target

Occurrences(text, target) ==
  { i \in 0..Len(text) : OccursAt(text, target, i) }

\* the index of the last occurrence, or -1
LastIndexOf(text, target) ==
  IF Occurrences(text, target) = {} THEN -1
  ELSE CHOOSE i \in Occurrences(text, target) :
         \A j \in Occurrences(text, target) : j <= i

\* text.indexOf(target): the index of the first occurrence, or -1
IndexOf(text, target) ==
  IF Occurrences(text, target) = {} THEN -1
  ELSE CHOOSE i \in Occurrences(text, target) :
         \A j \in Occurrences(text, target) : i <= j

\* text.substring(start, end), for 0 <= start <= end <= text.length
Substring(text, start, end) == SubSeq(text, start + 1, end)

\* \s of a regular expression, over the alphabet
IsWhitespace(c) == c \in {" ", "\n"}

\* text.replace(/\s+/g, ' ')
CollapseWhitespace(text) ==
  LET firsts == SelectSeq([i \in 1..Len(text) |-> i],
                          LAMBDA i : \/ ~IsWhitespace(text[i])
                                     \/ i = 1
                                     \/ ~IsWhitespace(text[i - 1]))
  IN [k \in 1..Len(firsts) |->
        IF IsWhitespace(text[firsts[k]]) THEN " " ELSE text[firsts[k]]]

\* getContext(fullText, target, lookbackChars)
GetContext(fullText, target, lookbackChars) ==
  IF fullText = <<>> \/ target = <<>> THEN <<>>
  ELSE LET idx == IndexOf(fullText, target)
       IN IF idx = -1 THEN <<>>
          ELSE LET start == Max(0, idx - lookbackChars)
                   end == Min(Len(fullText),
                              idx + Len(target) + PostContextChars)
               IN CollapseWhitespace(Substring(fullText, start, end))

InitContext ==
  /\ InitCoordinator
  /\ sendsAllowed = MaxSends
  /\ InitRetryIdle
  /\ InitAdapterIdle
  /\ InitImportIdle
  /\ InitScan
  /\ InitMemoryIdle
  /\ InitPersonaIdle
  /\ callArgs \in { [fn |-> "getContext", fullText |-> t, target |-> g,
                      lookbackChars |-> b] :
                      t \in FullTexts, g \in TextsUpTo(MaxTarget), b \in Lookbacks }
  /\ callResult = NotReturned

\* what the specifications of the prompt helpers leave alone
HelperFrame ==
  /\ UNCHANGED callArgs
  /\ UNCHANGED <<sendsAllowed, coordVars, retryVars, adapterVars, importVars,
                 scanVars, memoryVars, personaVars>>

\* the call of getContext returns
GetContextReturns ==
  /\ callArgs.fn = "getContext"
  /\ ~callResult.done
  /\ callResult' = Returned(TRUE, GetContext(callArgs.fullText, callArgs.target,
                                               callArgs.lookbackChars))
  /\ HelperFrame

SpecContext == InitContext /\ [][GetContextReturns]_vars

\* a comment longer than TruncateAt is cut
TruncateAt == 50

\* a list given to formatShortTermMemory has at most MaxRecords records
MaxRecords == 2

\* returned by formatShortTermMemory for no record
NoRecentDiscussion == <<"no recent discussion.">>

\* "..."
ThreeDots == <<".", ".", ".">>

\* the comments of the records: none, short ones, one of two lines, and
\* comments of TruncateAt characters, one less and one more
Comments ==
  { <<>>, <<"a">>, <<"a", "\n", "b">> }
  \cup { Run("x", n) : n \in (TruncateAt - 1)..(TruncateAt + 1) }

\* the records: author, topic (none for ''), comment
ShortTermRecords ==
  [author : {"user", "ai"}, topic : {<<>>, <<"t">>}, comment : Comments]

RecordLists == UNION { [1..n -> ShortTermRecords] : n \in 0..MaxRecords }

\* a.comment.length > 50 ? a.comment.substring(0, 50) + "..." : a.comment
ShortContent(comment) ==
  IF Len(comment) > TruncateAt
  THEN Substring(comment, 0, TruncateAt) \o ThreeDots
  ELSE comment

\* `- ${topic} ${role}: ${content}`
MemoryLine(a) ==
  LET role == IF a.author = "user" THEN <<"user">> ELSE <<"me">>
      topic == IF a.topic # <<>> THEN <<"[">> \o a.topic \o <<"]">> ELSE <<>>
  IN <<"-", " ">> \o topic \o <<" ">> \o role \o <<":", " ">> \o ShortContent(a.comment)

\* lines.join('\n')
RECURSIVE JoinLines(_)
JoinLines(lines) ==
  IF lines = <<>> THEN <<>>
  ELSE IF Len(lines) = 1 THEN lines[1]
  ELSE lines[1] \o <<"\n">> \o JoinLines(Tail(lines))

\* formatShortTermMemory(annotations)
FormatShortTermMemory(records) ==
  IF records = <<>> THEN NoRecentDiscussion
  ELSE JoinLines([i \in 1..Len(records) |-> MemoryLine(records[i])])

InitFormat ==
  /\ InitCoordinator
  /\ sendsAllowed = MaxSends
  /\ InitRetryIdle
  /\ InitAdapterIdle
  /\ InitImportIdle
  /\ InitScan
  /\ InitMemoryIdle
  /\ InitPersonaIdle
  /\ callArgs \in { [fn |-> "formatShortTermMemory", annotations |-> l] :
                      l \in RecordLists }
  /\ callResult = NotReturned

\* the call of formatShortTermMemory returns
FormatReturns ==
  /\ callArgs.fn = "formatShortTermMemory"
  /\ ~callResult.done
  /\ callResult' = Returned(TRUE, FormatShortTermMemory(callArgs.annotations))
  /\ HelperFrame

SpecFormat == InitFormat /\ [][FormatReturns]_vars

----------------------------------------------------------------------------
\* The request of the OpenAI-compatible adapter (geminiService.ts,
\* mapGeminiToOpenAI and the head of callOpenAI).  A text is a sequence of
\* words; a turn of the canonical contents carries an array of parts.

MaxTurns == 2

\* a part of a turn: { text } or { inlineData: { mimeType, data } }
TextPart(text) ==
  [inlineData |-> FALSE, text |-> text, mimeType |-> "", data |-> ""]

ImagePart(mimeType, data) ==
  [inlineData |-> TRUE, text |-> <<>>, mimeType |-> mimeType, data |-> data]

ContentTurn(role, parts) == [role |-> role, parts |-> parts]

\* the content of a message: a string, or an array of content blocks
StringContent(text) == [isArray |-> FALSE, text |-> text, blocks |-> <<>>]

ArrayContent(blocks) == [isArray |-> TRUE, text |-> <<>>, blocks |-> blocks]

TextBlock(text) == [type |-> "text", text |-> text, url |-> <<>>]

ImageBlock(mimeType, data) ==
  [type |-> "image_url", text |-> <<>>,
   url |-> <<"data:", mimeType, ";base64,", data>>]

ChatMessage(role, content) == [role |-> role, content |-> content]

\* the role every turn gets whatever its own role (used to see that the role
\* mapping matters)
AlwaysUser(role) == "user"

\* Gemini roles 'user' | 'model' -> OpenAI roles 'user' | 'assistant'
OpenAIRole(role) == IF role = "model" THEN "assistant" ELSE "user"

ContentPart(p) ==
  IF p.inlineData THEN ImageBlock(p.mimeType, p.data) ELSE TextBlock(p.text)

\* the message of one turn: a purely textual turn is simplified to a string,
\* its texts joined by newlines
MapTurn(item) ==
  LET contentParts == [i \in 1..Len(item.parts) |-> ContentPart(item.parts[i])]
  IN  IF \A i \in 1..Len(contentParts) : contentParts[i].type = "text"
      THEN ChatMessage(OpenAIRole(item.role),
                       StringContent(JoinLines([i \in 1..Len(contentParts) |->
                                                  contentParts[i].text])))
      ELSE ChatMessage(OpenAIRole(item.role), ArrayContent(contentParts))

\* mapGeminiToOpenAI(contents, systemInstruction)
MapGeminiToOpenAI(contents, systemInstruction) ==
  (IF Truthy(systemInstruction)
   THEN <<ChatMessage("system", StringContent(systemInstruction.value))>>
   ELSE <<>>)
  \o [i \in 1..Len(contents) |-> MapTurn(contents[i])]

JsonDirective ==
  <<"\n", "IMPORTANT:", "Output", "strictly", "in", "JSON", "format.">>

\* messages[0].content.includes('JSON'): a substring of a string, an element
\* of an array (whose elements are blocks, never the string)
ContentIncludesJSON(content) ==
  IF content.isArray THEN FALSE ELSE Includes(content.text, "JSON")

\* an array of blocks coerced to a string by +=
BlocksToString(blocks) ==
  [k \in 1..(2 * Len(blocks) - 1) |->
     IF k % 2 = 1 THEN "[object Object]" ELSE ","]

\* messages[0].content += directive
PlusDirective(content) ==
  StringContent((IF content.isArray THEN BlocksToString(content.blocks)
                 ELSE content.text) \o JsonDirective)

NoOverride == [responseMimeType |-> "none"]

JsonOverride == [responseMimeType |-> "application/json"]

\* what callOpenAI hands to fetchWithRetry, or the TypeError it throws first
RequestBody(threw, requestMessages) ==
  [threw |-> threw, messages |-> requestMessages]

\* the messages of the body callOpenAI sends
CallOpenAIRequest(contents, systemInstruction, generationConfigOverride) ==
  LET mapped == MapGeminiToOpenAI(contents, systemInstruction)
  IN  IF generationConfigOverride.responseMimeType = "application/json"
      THEN IF mapped = <<>>
           THEN RequestBody(TRUE, <<>>)
           ELSE IF ContentIncludesJSON(mapped[1].content)
                THEN RequestBody(FALSE, mapped)
                ELSE RequestBody(FALSE,
                       [mapped EXCEPT ![1].content = PlusDirective(@)])
      ELSE RequestBody(FALSE, mapped)

\* the instruction of generateSoulReport, which asks for JSON only, and the
\* instruction of autonomousScan, made of the persona's name and description
\* and the book's title, which are the user's words
AnalystInstruction == <<"analyst", "only", "output", "JSON">>

SystemInstructions ==
  { AnalystInstruction, <<"persona">>, <<"persona", "likes", "JSON">> }

TurnTexts == { <<>>, <<"w">>, <<"w", "JSON">> }

TextTurns == { ContentTurn(r, <<TextPart(t)>>) : r \in {"user", "model"},
                                                  t \in TurnTexts }

\* the turn of processImagesWithAI: page images, then the instruction
ImageTurns == { ContentTurn("user", <<ImagePart("image/jpeg", "d"),
                                      TextPart(<<"w">>)>>) }

ContentLists ==
  UNION { [1..n -> TextTurns \cup ImageTurns] : n \in 0..MaxTurns }

IsTextOnly(item) ==
  \A i \in 1..Len(item.parts) : ~item.parts[i].inlineData

InitOpenAI ==
  /\ InitCoordinator
  /\ sendsAllowed = MaxSends
  /\ InitRetryIdle
  /\ InitAdapterIdle
  /\ InitImportIdle
  /\ InitScan
  /\ InitMemoryIdle
  /\ InitPersonaIdle
  /\ callArgs \in
       { [fn |-> "mapGeminiToOpenAI", contents |-> c, systemInstruction |-> s,
          generationConfigOverride |-> NoOverride] :
           c \in ContentLists,
           s \in {NoField} \cup { Field(TRUE, t) : t \in SystemInstructions } }
       \cup
       { [fn |-> "callOpenAI", contents |-> c, systemInstruction |-> s,
          generationConfigOverride |-> o] :
           c \in ContentLists,
           s \in {NoField} \cup { Field(TRUE, t) : t \in SystemInstructions },
           o \in {NoOverride, JsonOverride} }
  /\ callResult = NotReturned

\* mapGeminiToOpenAI returns its messages
MapGeminiToOpenAIReturns ==
  /\ callArgs.fn = "mapGeminiToOpenAI"
  /\ ~callResult.done
  /\ callResult' = Returned(TRUE, MapGeminiToOpenAI(callArgs.contents,
                                                     callArgs.systemInstruction))
  /\ HelperFrame

\* callOpenAI has built its body and calls fetchWithRetry, or has thrown
CallOpenAISends ==
  /\ callArgs.fn = "callOpenAI"
  /\ ~callResult.done
  /\ callResult' = Returned(TRUE, CallOpenAIRequest(callArgs.contents,
                       callArgs.systemInstruction,
                       callArgs.generationConfigOverride))
  /\ HelperFrame

NextOpenAI == MapGeminiToOpenAIReturns \/ CallOpenAISends

SpecOpenAI == InitOpenAI /\ [][NextOpenAI]_vars

----------------------------------------------------------------------------
\* fetchWithRetry when every await of it settles: each fetch() is answered
\* or throws, and each backoff timer fires.

EveryAwaitSettles == WF_vars(NextRetry)

SpecRetryLive == InitRetry /\ [][NextRetry]_vars /\ EveryAwaitSettles

----------------------------------------------------------------------------
\* The active persona and the completion of runAutoMemory (App.tsx, the
\* Auto-Memory effect and handlePersonaChange).  When the effect starts a
\* consolidation is the matter of SpecMemory; here it may start whenever an
\* API key is set.

MaxConsolidations == 2

\* what the actions of the persona's specification leave alone
PersonaFrame ==
  UNCHANGED <<sendsAllowed, coordVars, retryVars, adapterVars, importVars,
              scanVars, memoryVars, helperVars>>

\* a runAutoMemory that is over: how it ended, the persona its closure held
\* and the memory consolidateMemory returned
MemoryEvent(how, captured, memory) ==
  [how |-> how, persona |-> captured, memory |-> memory]

\* the effect's condition holds: runAutoMemory is called and awaits
\* consolidateMemory(persona, ...) with the persona of this render
RunAutoMemory ==
  /\ apiKey
  /\ BagCardinality(consolidations) + Len(memoryLog) < MaxConsolidations
  /\ consolidations' = consolidations (+) SetToBag({persona})
  /\ UNCHANGED <<persona, personas, memoryLog>>
  /\ PersonaFrame

\* handlePersonaChange(newPersona), newPersona an entry of the list
HandlePersonaChange(newPersona) ==
  /\ newPersona.id # persona.id
  /\ persona' = newPersona
  /\ UNCHANGED <<personas, consolidations, memoryLog>>
  /\ PersonaFrame

\* `updatedPersona.id === persona.id`, both taken from the closure
IsStillActive(updatedPersona, captured) == updatedPersona.id = captured.id

\* runAutoMemory after consolidateMemory resolved with newMemory
ConsolidateReturns(captured, newMemory) ==
  /\ BagIn(captured, consolidations)
  /\ consolidations' = consolidations (-) SetToBag({captured})
  /\ LET updatedPersona == [captured EXCEPT !.longTermMemory = newMemory]
     IN  IF IsStillActive(updatedPersona, captured)
         THEN /\ persona' = updatedPersona
              /\ personas' = [i \in 1..Len(personas) |->
                                IF personas[i].id = updatedPersona.id
                                THEN updatedPersona ELSE personas[i]]
         ELSE UNCHANGED <<persona, personas>>
  /\ memoryLog' = Append(memoryLog, MemoryEvent("returned", captured, newMemory))
  /\ PersonaFrame

\* runAutoMemory after consolidateMemory rejected: the error is logged
ConsolidateFails(captured) ==
  /\ BagIn(captured, consolidations)
  /\ consolidations' = consolidations (-) SetToBag({captured})
  /\ memoryLog' = Append(memoryLog, MemoryEvent("failed", captured, ""))
  /\ UNCHANGED <<persona, personas>>
  /\ PersonaFrame

NextPersona ==
  \/ RunAutoMemory
  \/ \E newPersona \in { personas[i] : i \in 1..Len(personas) } :
       HandlePersonaChange(newPersona)
  \/ \E captured \in BagToSet(consolidations), newMemory \in NewMemories :
       ConsolidateReturns(captured, newMemory)
  \/ \E captured \in BagToSet(consolidations) : ConsolidateFails(captured)

SpecPersona == Init /\ [][NextPersona]_vars

----------------------------------------------------------------------------
\* The annotation list handed to generateSoulReport (geminiService.ts) by
\* fetchReport (ReadingReportModal.tsx): it is the array bookAnnotations of
\* App.tsx itself, of which executeAIAnnotation takes the first entries as
\* short-term memory.  callArgs.annotations is that array.

MaxListed == 3
MaxStamp == 2

AnnoIds == {"a", "b", "c"}

Stamped(id, timestamp) == [id |-> id, timestamp |-> timestamp]

\* b.timestamp - a.timestamp <= 0 for every a before b
IsNewestFirst(list) ==
  \A i, j \in 1..Len(list) : i < j => list[i].timestamp >= list[j].timestamp

\* what the memo bookAnnotations can hold: records of distinct annotations,
\* sorted by timestamp, newest first
BookAnnotationLists ==
  { list \in UNION { [1..n -> { Stamped(id, t) : id \in AnnoIds, t \in 1..MaxStamp }] :
                       n \in 0..MaxListed } :
      /\ \A i, j \in 1..Len(list) : i # j => list[i].id # list[j].id
      /\ IsNewestFirst(list) }

\* x put into an ascending list before the entries that are not older
InsertAscending(x, sorted) ==
  LET before == SelectSeq(sorted, LAMBDA y : y.timestamp < x.timestamp)
      after  == SelectSeq(sorted, LAMBDA y : y.timestamp >= x.timestamp)
  IN  before \o <<x>> \o after

RECURSIVE SortOldestFirst(_)

\* annotations.sort((a, b) => a.timestamp - b.timestamp): the array itself,
\* sorted oldest first (the sort is stable)
SortOldestFirst(list) ==
  IF list = <<>> THEN <<>>
  ELSE InsertAscending(Head(list), SortOldestFirst(Tail(list)))

\* bookAnnotations.slice(0, count).reverse()
RecentAnnos(list, count) ==
  LET n == Min(count, Len(list))
  IN  [i \in 1..n |-> list[n + 1 - i]]

\* what the reader saw happen: the report was asked for, and the short-term
\* memory executeAIAnnotation took
Observed(reported, taken, recentAnnos) ==
  [reported |-> reported, taken |-> taken, recentAnnos |-> recentAnnos]

InitReport ==
  /\ InitCoordinator
  /\ sendsAllowed = MaxSends
  /\ InitRetryIdle
  /\ InitAdapterIdle
  /\ InitImportIdle
  /\ InitScan
  /\ InitMemoryIdle
  /\ InitPersonaIdle
  /\ callArgs \in { [fn |-> "generateSoulReport", annotations |-> list,
                      shortTermMemoryCount |-> n] :
                      list \in BookAnnotationLists, n \in 1..MaxListed }
  /\ callResult = Returned(TRUE, Observed(FALSE, FALSE, <<>>))

ReportFrame ==
  UNCHANGED <<sendsAllowed, coordVars, retryVars, adapterVars, importVars,
              scanVars, memoryVars, personaVars>>

\* fetchReport calls generateSoulReport(book.title, annotations, ...), which
\* sorts its argument before its first await
FetchReport ==
  /\ callArgs.fn = "generateSoulReport"
  /\ ~callResult.value.reported
  /\ callArgs' = [callArgs EXCEPT !.annotations = SortOldestFirst(@)]
  /\ callResult' = [callResult EXCEPT !.value.reported = TRUE]
  /\ ReportFrame

\* executeAIAnnotation prepares the short-term memory
TakeRecentAnnos ==
  /\ callArgs.fn = "generateSoulReport"
  /\ ~callResult.value.taken
  /\ callResult' = [callResult EXCEPT
                      !.value.taken = TRUE,
                      !.value.recentAnnos =
                         RecentAnnos(callArgs.annotations,
                                     callArgs.shortTermMemoryCount)]
  /\ UNCHANGED callArgs
  /\ ReportFrame

NextReport == FetchReport \/ TakeRecentAnnos

SpecReport == InitReport /\ [][NextReport]_vars

----------------------------------------------------------------------------
\* The coordinator when every provider call settles: a call awaited by
\* handleTriggerAIReply or executeAIAnnotation for annotation id resolves or
\* rejects in the end, and its continuation then runs.

CallSettles(id) ==
  \E r \in Calls :
    /\ r.id = id
    /\ \/ \E text \in ProviderTexts : ChatReturns(r, text)
       \/ ChatFails(r)
       \/ \E text \in ProviderTexts : CommentReturns(r, text)
       \/ AnnotationCallFails(r)
       \/ \E text \in TopicTexts : TopicReturns(r, text)

EveryCallSettles == \A id \in Clock : WF_vars(CallSettles(id))

SpecLive == InitLive /\ [][Next]_vars /\ EveryCallSettles

----------------------------------------------------------------------------
\* What the claims speak of.

\* the calls in flight that are AI requests of the coordinator's triggers
\* (send-and-reply, reply to the last user note, rewrite, reactive annotation)
AIRequestKinds == {"reply", "comment", "topic"}

\* how many such calls are in flight for annotation id
RequestsInFlight(id) ==
  LET rs == { r \in Calls : r.id = id /\ r.kind \in AIRequestKinds }
  IN IF rs = {} THEN 0
     ELSE BagCardinality([r \in rs |-> CopiesIn(r, inflight)])

\* C1: no annotation id ever has two AI requests in flight at the same time.
C1_OneRequestPerId == \A id \in Clock : RequestsInFlight(id) <= 1

\* the stored chat history of the record the coordinator finds for id
StoredHistory(annos, id) == Find(annos, id).chatHistory

\* s is t or a beginning of t
IsPrefix(s, t) == Len(s) <= Len(t) /\ SubSeq(t, 1, Len(s)) = s

\* this step is the completion `op` of a call that was in flight
Completes(op) ==
  /\ last'.op = op
  /\ BagIn(last'.req, inflight)
  /\ inflight' # inflight

\* this step is a trigger that started a call
Triggers(op) ==
  /\ last'.op = op
  /\ inflight' = Start(inflight, last'.req)

\* C2: when executeAIAnnotation's AI call (comment generation or topic
\* summarization) has failed, the collection holds no record with the
\* placeholder's id and that id is not Pending.
C2_RollbackOnFailure ==
  last.op = "annotateFailure" =>
    /\ ~HasId(annotations, last.req.id)
    /\ last.req.id \notin processingAnnotationIds

\* a topic summarization has failed after the comment was generated, and the
\* rollback left the other annotation in place
C2_Witness ==
  /\ last.op = "annotateFailure"
  /\ last.req.kind = "topic"
  /\ annotations # <<>>

\* C3: when a chat reply triggered with a new user message has failed, the
\* stored history is the history before the trigger, then the user turn once,
\* then the fixed apology as a model turn, and nothing else.
C3_ApologyOnFailure ==
  (last.op = "replyFailure" /\ last.req.userMessage # ""
     /\ HasId(annotations, last.req.id)) =>
    StoredHistory(annotations, last.req.id) =
      last.req.context
        \o <<Turn("user", last.req.userMessage), Turn("model", Apology)>>

\* a send with a typed message has failed on a record that had turns before
C3_Witness ==
  /\ last.op = "replyFailure"
  /\ last.req.userMessage = "u1"
  /\ last.req.context # <<>>
  /\ HasId(annotations, last.req.id)
  /\ Len(StoredHistory(annotations, last.req.id)) = Len(last.req.context) + 2

\* C4: on success of a chat reply (send or reply to the last note), the model
\* turn is appended to the stored history as it is at completion time: the
\* turns added to the record while the request was Pending stay, in order,
\* before the new model turn.
C4_AppendsToCurrentHistory ==
  [][(Completes("replySuccess") /\ last'.req.via # "rewrite"
        /\ HasId(annotations, last'.req.id)
        /\ IsPrefix(HistoryForAI(last'.req.userMessage, last'.req.context),
                    StoredHistory(annotations, last'.req.id)))
     => StoredHistory(annotations', last'.req.id) =
          Append(StoredHistory(annotations, last'.req.id),
                 Turn("model", last'.text))]_vars

\* C5: every annotation id that becomes Pending is Idle again later, whether
\* the call succeeds, answers empty text or fails, for executeAIAnnotation and
\* for handleTriggerAIReply.
C5_PendingLeadsToIdle ==
  \A id \in Clock :
    (id \in processingAnnotationIds) ~> (id \notin processingAnnotationIds)

\* a reply call answered empty text and its id, Pending until then, is Idle
C5_Witness ==
  /\ last.op = "replySuccess"
  /\ last.text = Ellipsis
  /\ last.req.id \notin processingAnnotationIds

\* C6: on the primary annotation path an answer with empty text is a hard
\* failure: once executeAIAnnotation has handled it, the placeholder is gone.
C6_EmptyTextRollsBack ==
  (last.op = "commentReturned" /\ last.text = "") =>
    ~HasId(annotations, last.req.id)

\* s without its last element
Front(s) == SubSeq(s, 1, Len(s) - 1)

\* the trigger step of a send with a new user message: the call carries the
\* history as it was, the user turn is stored, the id is Pending
C7_TriggerStep ==
  [][(Triggers("handleTriggerAIReply") /\ last'.req.userMessage # "")
     => /\ last'.req.context = StoredHistory(annotations, last'.req.id)
        /\ StoredHistory(annotations', last'.req.id) =
             Append(StoredHistory(annotations, last'.req.id),
                    Turn("user", last'.req.userMessage))
        /\ last'.req.id \in processingAnnotationIds']_vars

\* a reply call with a new user message is in flight only while its id is Pending
C7_PendingUntilCompletion ==
  \A r \in Calls :
    (r.kind = "reply" /\ r.userMessage # "") => r.id \in processingAnnotationIds

\* C7: on a trigger with a new user message the user turn is stored before
\* the call is issued and the call carries the history as it was before that
\* turn (the message apart); the id is Pending from then until completion.
C7_AppendAndReply == C7_TriggerStep /\ []C7_PendingUntilCompletion

\* this step is a rewrite trigger
RewriteTriggered == Triggers("handleTriggerAIReply") /\ last'.req.via = "rewrite"

\* this step is the success of a rewrite on a record still in the collection
RewriteSucceeded ==
  /\ Completes("replySuccess")
  /\ last'.req.via = "rewrite"
  /\ HasId(annotations, last'.req.id)

C9_PlaceholderInserted ==
  [][Triggers("executeAIAnnotation") =>
       /\ Len(annotations') = Len(annotations) + 1
       /\ Tail(annotations') = annotations
       /\ annotations'[1].id = last'.req.id
       /\ annotations'[1].textSelection = last'.req.selection
       /\ annotations'[1].comment = ""
       /\ annotations'[1].topic = ThinkingTopic
       /\ annotations'[1].chatHistory = <<>>
       /\ last'.req.id \in processingAnnotationIds']_vars

\* the success step of executeAIAnnotation: the record with the id becomes the
\* finalized record where it stands, and every other record is left as it is
C9_ReplacedInPlace ==
  [][Completes("annotateSuccess") =>
       /\ Len(annotations') = Len(annotations)
       /\ \A i \in 1..Len(annotations) :
            IF annotations[i].id = last'.req.id
            THEN /\ annotations'[i].id = last'.req.id
                 /\ annotations'[i].textSelection = last'.req.selection
                 /\ annotations'[i].comment = last'.text
                 /\ annotations'[i].comment # ""
                 /\ annotations'[i].topic = last'.topic
                 /\ annotations'[i].topic # ThinkingTopic
                 /\ annotations'[i].chatHistory = <<Turn("model", last'.text)>>
            ELSE annotations'[i] = annotations[i]]_vars

\* C9: on trigger a placeholder with empty comment and the thinking topic is
\* inserted at once and its id is Pending; on success the record with that id
\* is replaced in place (same id, same position) by the finalized record with
\* the comment, the derived topic and one model turn equal to the comment.
C9_CreateAndAnnotate == C9_PlaceholderInserted /\ C9_ReplacedInPlace

\* an annotation was finalized at the second position of the collection,
\* behind a record created while the request was in flight
C9_Witness ==
  /\ last.op = "annotateSuccess"
  /\ Len(annotations) = 2
  /\ annotations[1].id # last.req.id
  /\ annotations[2].id = last.req.id
  /\ annotations[2].comment = last.text
  /\ annotations[2].topic = <<"a">>
  /\ annotations[2].chatHistory = <<Turn("model", last.text)>>

\* C10: a call with retries = 3 and backoff = 1000 whose first two attempts
\* answer 503 and whose third answers 200 returns that response after exactly
\* three attempts and exactly two waits, of 1000 ms and then 2000 ms.
C10_RetrySchedule ==
  (/\ frRetries0 = DefaultRetries
   /\ frBackoff0 = DefaultBackoff
   /\ Len(frLog) >= 3
   /\ SubSeq(frLog, 1, 3) = <<503, 503, 200>>) =>
    /\ frPc = "done"
    /\ frResult = Settled("resolved", 200, "")
    /\ Len(frLog) = 3
    /\ frWaits = <<1000, 2000>>

\* such a call has settled
C10_Witness ==
  /\ frPc = "done"
  /\ frRetries0 = DefaultRetries
  /\ frBackoff0 = DefaultBackoff
  /\ frLog = <<503, 503, 200>>

\* the call is waiting out a backoff
InBackoff == frPc \in {"wait_http", "wait_net"}

\* the promise is rejected with the cancellation error
RejectedAsAborted == frPc = "done" /\ frResult = Settled("rejected", 0, "AbortError")

\* C11: when the signal is aborted during a backoff wait (after a 429/5xx
\* answer or after a network error), the call rejects with AbortError and
\* makes no further network attempt, whatever retries remain.
C11_AbortDuringBackoff ==
  /\ [][(InBackoff /\ frAborted) =>
          (RejectedAsAborted' /\ frLog' = frLog /\ frRetries' = frRetries)]_vars
  /\ [][frPc = "done" => (frPc' = "done" /\ frLog' = frLog)]_vars

\* the signal was aborted during the wait that followed a network error, with
\* two retries left
C11_Witness ==
  /\ RejectedAsAborted
  /\ frLog # <<>>
  /\ frLog[Len(frLog)] = 0
  /\ Len(frWaits) = Len(frLog)
  /\ frRetries = frRetries0 - Len(frWaits) + 1
  /\ frRetries = 2

\* C12: once the signal is aborted no further network call is issued and no
\* wait is followed by a retry; the AbortError of fetch is propagated at once
\* and unchanged, whatever the remaining retry budget.
C12_CancellationWins ==
  [][(frAborted /\ frPc # "done") =>
       /\ RejectedAsAborted'
       /\ frLog' = frLog
       /\ frRetries' = frRetries
       /\ (frPc = "fetch" => frWaits' = frWaits)]_vars

\* a fetch was aborted with the whole budget of three retries left
C12_Witness ==
  /\ RejectedAsAborted
  /\ frRetries = DefaultRetries
  /\ frLog = <<>>
  /\ frWaits = <<>>


\* every fetch() of the call was answered with 429 or 5xx, the call is over
\* and nobody cancelled it
EveryAttemptFailed ==
  /\ frPc = "done"
  /\ frLog # <<>>
  /\ \A i \in 1..Len(frLog) : Retryable(frLog[i])
  /\ ~frAborted

\* C13: when every attempt of fetchWithRetry is answered with 429 or 5xx, the
\* call resolves (it does not throw) with the last failing response, after
\* retries + 1 attempts have used the budget up, and callGemini / callOpenAI
\* turns that response into a thrown error.
C13_ExhaustionOnHttpFailure ==
  EveryAttemptFailed =>
    /\ frResult = Settled("resolved", frLog[Len(frLog)], "")
    /\ Len(frLog) = frRetries0 + 1
    /\ Len(frWaits) = frRetries0
    /\ frRetries = 0
    /\ adOutcome.how \in {"pending", "thrown"}
    /\ genOutcome.how # "pending" => adOutcome.how = "thrown"

C13_Witness ==
  /\ EveryAttemptFailed
  /\ Len(frLog) = DefaultRetries + 1
  /\ frLog[1] = 429
  /\ frLog[Len(frLog)] = 503
  /\ adOutcome.how = "thrown"
  /\ adProvider = "openai"

\* the value each generation function documents for an empty reply;
\* consolidateMemory substitutes nothing for it
Fallback(fn) ==
  CASE fn \in {"generateAIAnnotation", "chatWithPersona",
               "generateAIResponseToUserNote"} -> EllipsisText
    [] fn = "generateLongFormAIReview" -> SpeechlessText
    [] fn = "respondToUserBookReview" -> UnderstoodText
    [] fn = "summarizeTopic" -> DefaultTopic
    [] fn = "consolidateMemory" -> <<>>
    [] fn = "autonomousScan" -> NoCandidates
    [] fn = "generateSoulReport" -> CannedSoulReport

\* the function has settled after the provider answered 2xx with an empty text
SettledOnEmptyText ==
  /\ genOutcome.how # "pending"
  /\ frResult.how = "resolved" /\ Ok(frResult.status)
  /\ adOutcome = Outcome("returned", <<>>)

\* the function has settled after the transport call or the HTTP exchange
\* failed
SettledOnFailure ==
  /\ genOutcome.how # "pending"
  /\ \/ frResult.how = "rejected"
     \/ frResult.how = "resolved" /\ ~Ok(frResult.status)

C14_EmptyTextFallsBack ==
  SettledOnEmptyText => genOutcome = Outcome("returned", Fallback(genFn))

C14_FailureThrows == SettledOnFailure => genOutcome.how = "thrown"

\* the functions that let a failure of callAI through
C14_PlainFunctionsThrow ==
  (SettledOnFailure /\ genFn \notin {"autonomousScan", "generateSoulReport"})
    => genOutcome = adOutcome /\ genOutcome.how = "thrown"

\* C14: each exported generation function returns its fallback value instead
\* of throwing when the provider answers 2xx with an empty text, and throws
\* when the transport or HTTP call fails.
C14_GenerationFunctions == C14_EmptyTextFallsBack /\ C14_FailureThrows

\* the adapter has settled after fetchWithRetry resolved with a non-2xx
\* response
SettledOnNonOk ==
  /\ adOutcome.how # "pending"
  /\ frResult.how = "resolved"
  /\ ~Ok(frResult.status)

\* '<Provider> API Error: <status>'
GenericText(provider, status) ==
  IF provider = "openai" THEN <<"OpenAI API Error: ", ToString(status)>>
  ELSE <<"Gemini API Error: ", ToString(status)>>

\* the error body is JSON and holds a message
BodyHasMessage == adBody.json /\ adBody.message.present /\ adBody.message.value # <<>>

C15_GeminiMessage ==
  (SettledOnNonOk /\ adProvider = "gemini") =>
    /\ adOutcome.how = "thrown"
    /\ adOutcome.value = IF BodyHasMessage THEN adBody.message.value
                         ELSE GenericText("gemini", frResult.status)

C15_OpenAIBodyMessage ==
  (SettledOnNonOk /\ adProvider = "openai") =>
    /\ adOutcome.how = "thrown"
    /\ BodyHasMessage => adOutcome.value = adBody.message.value

\* C15: both adapters throw on a non-2xx response; the message of the error
\* is the error body's message when the body is JSON with one, and otherwise
\* exactly '<Provider> API Error: <status>', for Gemini and OpenAI alike.
C15_NonOkIsHardFailure ==
  SettledOnNonOk =>
    /\ adOutcome.how = "thrown"
    /\ adOutcome.value = IF BodyHasMessage THEN adBody.message.value
                         ELSE GenericText(adProvider, frResult.status)

\* no call of onImport was made under an aborted signal
NoImportAfterAbort == imImport # "aborted"

\* no call of repairTextWithAI was made under an aborted signal
NoRepairAfterAbort == imRepair # "aborted"

C16_AIModeImportsNothing == imMode = "ai" => NoImportAfterAbort

\* C16: once the user has cancelled a PDF import, at whatever point of
\* executePdfImport, onImport is never called for that import (no book is
\* added to the library) and no text-repair call is started.
C16_AbortedImportIsNoOp == NoImportAfterAbort /\ NoRepairAfterAbort

\* this step appends the results of a scan
ScanAppends == Completes("pageScan") \/ Completes("createdScan")

\* the records this step put in front of the collection
Appended == SubSeq(annotations', 1, Len(annotations') - Len(annotations))

\* no appended record repeats the textSelection of a record that is in the
\* collection when the results are appended
C17_NoneAlreadyPresent ==
  [][ScanAppends =>
       \A i \in 1..Len(Appended) :
         ~Includes(ExistingSelections(annotations), Appended[i].textSelection)]_vars

\* no two records appended by one scan have the same textSelection
C17_NoneTwiceInOneScan ==
  [][ScanAppends =>
       \A i, j \in 1..Len(Appended) :
         Appended[i].textSelection = Appended[j].textSelection => i = j]_vars

\* the page-change scan never appends a selection that was in the collection
\* when the scan was started
C17_PageScanSkipsSnapshot ==
  [][Completes("pageScan") =>
       \A i \in 1..Len(Appended) :
         ~Includes(last'.req.context, Appended[i].textSelection)]_vars

\* the same as C17_NoneAlreadyPresent, for the page-change scan alone
C17_PageScanNoneAlreadyPresent ==
  [][Completes("pageScan") =>
       \A i \in 1..Len(Appended) :
         ~Includes(ExistingSelections(annotations), Appended[i].textSelection)]_vars

\* C17: a scan result is appended to the annotation collection only if, when
\* it is appended, no annotation of the book has exactly the same
\* textSelection; this holds for the page-change scan and for several results
\* of one scan.
C17_ScanDedup == C17_NoneAlreadyPresent /\ C17_NoneTwiceInOneScan

\* this step starts consolidateMemory
MemoryStarted == Len(memStarts') = Len(memStarts) + 1

\* C18: once consolidateMemory was started at annotation count c, a positive
\* multiple of autoMemoryThreshold, no later run of the effect starts it at c
\* again before it was started at a different count: not when the persona,
\* engineConfig or the book object changes, and not when deletions and
\* additions bring the count back to c.
C18_NoRetriggerForSameCrossing ==
  /\ [][MemoryStarted =>
          /\ memStarts'[Len(memStarts')] = BookCount(memCounts', activeBookId')
          /\ memStarts'[Len(memStarts')] > 0
          /\ memStarts'[Len(memStarts')] % autoMemoryThreshold' = 0
          /\ memStarts'[Len(memStarts')] # lastConsolidatedCount
          /\ lastConsolidatedCount' = memStarts'[Len(memStarts')]]_vars
  /\ [][~MemoryStarted =>
          /\ memStarts' = memStarts
          /\ lastConsolidatedCount' = lastConsolidatedCount]_vars
  /\ [](\A i \in 1..(Len(memStarts) - 1) : memStarts[i] # memStarts[i + 1])

\* consolidateMemory was started once, at count 2; its answer has changed the
\* persona and the effect has run again at count 2 without a second start
C18_Witness ==
  /\ memStarts = <<2>>
  /\ autoMemoryThreshold = 2
  /\ apiKey
  /\ longTermMemory = 1
  /\ memPending = 0
  /\ activeBookId = "A"
  /\ memCounts["A"] = 2
  /\ lastConsolidatedCount = 2

\* the window the contract describes: empty when target does not occur in
\* fullText, and otherwise the characters from max(0, i - lookback) up to
\* min(len, i + len(target) + 200), whitespace runs collapsed, for the first
\* index i at which target occurs
ReferenceWindow(fullText, target, lookback) ==
  IF \A i \in 0..Len(fullText) : ~OccursAt(fullText, target, i) THEN <<>>
  ELSE LET i == CHOOSE k \in 0..Len(fullText) :
                  /\ OccursAt(fullText, target, k)
                  /\ \A j \in 0..(k - 1) : ~OccursAt(fullText, target, j)
           from == IF i - lookback > 0 THEN i - lookback ELSE 0
           upto == IF i + Len(target) + PostContextChars < Len(fullText)
                   THEN i + Len(target) + PostContextChars
                   ELSE Len(fullText)
       IN CollapseWhitespace(SubSeq(fullText, from + 1, upto))

\* getContext equals the reference window for every input
C19_AsStated ==
  callResult.done =>
    callResult.value =
      ReferenceWindow(callArgs.fullText, callArgs.target, callArgs.lookbackChars)

\* C19: getContext(fullText, target, lookback) returns the empty string when
\* target is empty or does not occur in fullText, and otherwise the reference
\* window around the first occurrence of target: fullText[max(0, i - lookback)
\* : min(len, i + len(target) + 200)] with every run of whitespace collapsed
\* to one space.
C19_ReferenceWindow ==
  callResult.done =>
    callResult.value =
      IF callArgs.target = <<>> THEN <<>>
      ELSE ReferenceWindow(callArgs.fullText, callArgs.target,
                           callArgs.lookbackChars)

\* the target occurs twice, the window around its first occurrence starts
\* after the beginning of the text and ends before its end, and the line
\* break in it has become a space
C19_Witness ==
  /\ callResult.done
  /\ Cardinality(Occurrences(callArgs.fullText, callArgs.target)) = 2
  /\ callArgs.target = <<"a">>
  /\ callArgs.lookbackChars = 1
  /\ IndexOf(callArgs.fullText, callArgs.target) = 2
  /\ SubSeq(callArgs.fullText, 1, 2) = <<"\n", "\n">>
  /\ Len(callResult.value) < Len(callArgs.fullText) - 1
  /\ callResult.value = <<" ", "a", "a">> \o Run("x", PostContextChars - 1)

\* the number of lines of a text
LineCount(text) == 1 + Cardinality({ i \in 1..Len(text) : text[i] = "\n" })

\* what the contract says of a record's content
ExpectedContent(comment) ==
  IF Len(comment) > TruncateAt
  THEN SubSeq(comment, 1, TruncateAt) \o <<".", ".", ".">>
  ELSE comment

\* s ends with t
EndsWith(s, t) ==
  Len(t) <= Len(s) /\ SubSeq(s, Len(s) - Len(t) + 1, Len(s)) = t

C20_PlaceholderForEmpty ==
  (callResult.done /\ callArgs.annotations = <<>>) =>
    callResult.value = NoRecentDiscussion

C20_LinePerRecord ==
  (callResult.done /\ callArgs.annotations # <<>>) =>
    LineCount(callResult.value) = Len(callArgs.annotations)

\* the output is the lines of the records in the caller's order, and the line
\* of a record ends with its content, cut as the contract says
C20_OrderAndCut ==
  (callResult.done /\ callArgs.annotations # <<>>) =>
    LET n == Len(callArgs.annotations)
    IN /\ callResult.value =
            JoinLines([i \in 1..n |-> MemoryLine(callArgs.annotations[i])])
       /\ \A i \in 1..n :
            EndsWith(MemoryLine(callArgs.annotations[i]),
                     <<":", " ">> \o ExpectedContent(callArgs.annotations[i].comment))

\* C20: formatShortTermMemory returns the fixed placeholder for an empty list;
\* for a non-empty list the output has as many lines as there are records,
\* in the caller's order, and a record's content is its comment, cut to the
\* first 50 characters followed by an ellipsis exactly when the comment is
\* longer than 50 characters.
C20_FormatShortTermMemory ==
  /\ C20_PlaceholderForEmpty
  /\ C20_LinePerRecord
  /\ C20_OrderAndCut

----------------------------------------------------------------------------
\* the call of mapGeminiToOpenAI that returned
Mapped == callArgs.fn = "mapGeminiToOpenAI" /\ callResult.done

\* the number of messages before the first turn's message
Lead == IF callArgs.systemInstruction.present THEN 1 ELSE 0

\* the turns read back from the messages after the system message:
\* 'assistant' is 'model' again, the content is the text of the only part
BackToTurns(mappedMessages) ==
  [i \in 1..Len(mappedMessages) |->
     ContentTurn(IF mappedMessages[i].role = "assistant" THEN "model" ELSE "user",
                 <<TextPart(mappedMessages[i].content.text)>>)]

\* C21 (first part): mapGeminiToOpenAI yields one message per turn, in the
\* order of the turns, and a text-only turn's message has role 'assistant'
\* for 'model' and 'user' for 'user' and the turn's text as its content.
C21_OneMessagePerTurn ==
  Mapped =>
    /\ Len(callResult.value) = Lead + Len(callArgs.contents)
    /\ \A i \in 1..Len(callArgs.contents) :
         IsTextOnly(callArgs.contents[i]) =>
           /\ callArgs.contents[i].role = "model"
                => callResult.value[Lead + i].role = "assistant"
           /\ callArgs.contents[i].role = "user"
                => callResult.value[Lead + i].role = "user"
           /\ callResult.value[Lead + i].content
                = StringContent(callArgs.contents[i].parts[1].text)

\* C21 (second part): for a list of text-only turns, mapping 'assistant'
\* back to 'model' recovers the original turns.
C21_RoundTrip ==
  (Mapped /\ \A i \in 1..Len(callArgs.contents) : IsTextOnly(callArgs.contents[i]))
    => BackToTurns(SubSeq(callResult.value, Lead + 1, Len(callResult.value)))
         = callArgs.contents

\* C21 (third part): a system instruction, when given, is the single leading
\* 'system' message; none is there when no instruction is given.
C21_LeadingSystem ==
  Mapped =>
    /\ callArgs.systemInstruction.present
         => callResult.value[1]
              = ChatMessage("system",
                            StringContent(callArgs.systemInstruction.value))
    /\ \A i \in (Lead + 1)..Len(callResult.value) :
         callResult.value[i].role # "system"

\* C21: the OpenAI message mapping keeps the order, the roles and the texts
\* of text-only turns, so that the turns can be read back from the messages,
\* and puts the system instruction first.
C21_MessageMapping ==
  /\ C21_OneMessagePerTurn
  /\ C21_RoundTrip
  /\ C21_LeadingSystem

\* a system instruction and two text turns, the AI's and then the user's,
\* were mapped to three messages
C21_Witness ==
  /\ Mapped
  /\ callArgs.systemInstruction = Field(TRUE, <<"persona">>)
  /\ callArgs.contents = <<ContentTurn("model", <<TextPart(<<"w", "JSON">>)>>),
                           ContentTurn("user", <<TextPart(<<"w">>)>>)>>
  /\ callResult.value = <<ChatMessage("system", StringContent(<<"persona">>)),
                          ChatMessage("assistant", StringContent(<<"w", "JSON">>)),
                          ChatMessage("user", StringContent(<<"w">>))>>

----------------------------------------------------------------------------
\* the call of callOpenAI in JSON mode that built its request
SentInJsonMode ==
  /\ callArgs.fn = "callOpenAI"
  /\ callArgs.generationConfigOverride = JsonOverride
  /\ callResult.done

\* the text tells the model to answer in JSON only: by the adapter's
\* directive, or in the instruction's own words
CarriesJsonDirective(text) ==
  \/ Occurrences(text, JsonDirective) # {}
  \/ Occurrences(text, <<"only", "output", "JSON">>) # {}

SystemMessageCarriesDirective ==
  /\ ~callResult.value.threw
  /\ callResult.value.messages # <<>>
  /\ callResult.value.messages[1].role = "system"
  /\ ~callResult.value.messages[1].content.isArray
  /\ CarriesJsonDirective(callResult.value.messages[1].content.text)

\* C24 (calls with a system instruction): in JSON mode the system message of
\* the request carries an explicit JSON-only directive.
C24_DirectiveWithInstruction ==
  (SentInJsonMode /\ callArgs.systemInstruction.present)
    => SystemMessageCarriesDirective

\* C24: in JSON mode the request carries an explicit JSON-only directive in
\* the text of its system message, for every call shape: with or without a
\* system instruction, with text or image turns.
C24_DirectiveEveryShape == SentInJsonMode => SystemMessageCarriesDirective

\* C24 (what the code keeps): in JSON mode the directive is appended to a
\* system instruction that does not contain the word JSON, and the turns
\* after it are sent as they were mapped.
C24_DirectiveUnlessJSONPresent ==
  (/\ SentInJsonMode
   /\ callArgs.systemInstruction.present
   /\ ~Includes(callArgs.systemInstruction.value, "JSON"))
    => /\ ~callResult.value.threw
       /\ callResult.value.messages[1]
            = ChatMessage("system",
                StringContent(callArgs.systemInstruction.value \o JsonDirective))
       /\ Tail(callResult.value.messages)
            = Tail(MapGeminiToOpenAI(callArgs.contents,
                                     callArgs.systemInstruction))

----------------------------------------------------------------------------
\* fetch() has just thrown an error that is not a cancellation
NetworkErrorThrown == frPc = "fetch" /\ frLog' = Append(frLog, 0)

\* the call threw the network error of its last attempt
RejectedWithNetworkError ==
  frPc = "done" /\ frResult = Settled("rejected", 0, "TypeError")

\* C23: when fetch throws an error that is not a cancellation, fetchWithRetry
\* does what it does for 429/5xx: with a retry left it waits for the backoff
\* and then calls again with one retry fewer and the backoff doubled; with
\* none left it throws that network error and returns no response.
C23_NetworkFailurePolicy ==
  /\ [][NetworkErrorThrown =>
          IF frRetries > 0
          THEN frPc' = "wait_net" /\ frResult' = NotSettled
          ELSE RejectedWithNetworkError']_vars
  /\ [][(InBackoff /\ ~frAborted /\ frPc' # frPc) =>
          /\ frPc' = "fetch"
          /\ frWaits' = Append(frWaits, frBackoff)
          /\ frRetries' = frRetries - 1
          /\ frBackoff' = frBackoff * 2
          /\ frLog' = frLog]_vars

\* a call with one retry met two network errors, waited once in between and
\* threw the second error
C23_Witness ==
  /\ RejectedWithNetworkError
  /\ frRetries0 = 1
  /\ frLog = <<0, 0>>
  /\ frWaits = <<frBackoff0>>
  /\ frRetries = 0
  /\ ~frAborted

----------------------------------------------------------------------------
\* C25 (attempts): one call with retries = r makes at most r + 1 network
\* attempts and waits at most r times.
C25_AtMostRetriesPlusOne ==
  /\ Len(frLog) <= frRetries0 + 1
  /\ Len(frWaits) <= frRetries0
  /\ frRetries \in 0..frRetries0

\* C25 (waits): the k-th wait lasts backoff * 2^(k-1) ms.
C25_WaitsDouble ==
  \A k \in 1..Len(frWaits) : frWaits[k] = frBackoff0 * 2^(k - 1)

\* C25 (levels): the failure of the attempt made with no retry left ends the
\* call, no earlier level of the recursion takes it up again, and a call
\* that is over makes no attempt and waits no more.
C25_NoRetryByEarlierLevel ==
  /\ [][(frPc = "fetch" /\ frRetries = 0 /\ frLog' # frLog) => frPc' = "done"]_vars
  /\ [][frRetries' <= frRetries]_vars
  /\ [][frPc = "done" => (frPc' = "done" /\ frLog' = frLog /\ frWaits' = frWaits)]_vars

\* C25: for every sequence of attempt outcomes (429/5xx response, network
\* error, other response) one fetchWithRetry call with retries = r makes at
\* most r + 1 attempts, its k-th wait lasts backoff * 2^(k-1) ms, a failure
\* of a later attempt is never retried by an earlier level of the recursion,
\* and the call always terminates.
C25_BoundedRetry ==
  /\ [](C25_AtMostRetriesPlusOne /\ C25_WaitsDouble)
  /\ C25_NoRetryByEarlierLevel
  /\ <>(frPc = "done")

\* a call with three retries met a 503, a network error, a 429 and a last
\* network error: four attempts, three waits of 1, 2 and 4 backoffs
C25_Witness ==
  /\ frPc = "done"
  /\ frRetries0 = DefaultRetries
  /\ frLog = <<503, 0, 429, 0>>
  /\ frWaits = <<frBackoff0, 2 * frBackoff0, 4 * frBackoff0>>
  /\ frResult = Settled("rejected", 0, "TypeError")

----------------------------------------------------------------------------
\* a runAutoMemory call has just ended
ConsolidationEnds == memoryLog' # memoryLog

\* how it ended
EndedConsolidation == memoryLog'[Len(memoryLog')]

\* C26 (active persona): the completion of a memory consolidation does not
\* change which persona is active; after a switch made while
\* consolidateMemory was in flight the active persona is still the one the
\* user selected.
C26_ActivePersonaKept ==
  [][ConsolidationEnds => persona'.id = persona.id]_vars

\* C26 (storing): the new longTermMemory is stored on the persona that was
\* consolidated, and the entry of every other persona of the list is left
\* as it was.
C26_StoredOnConsolidatedOnly ==
  [][ConsolidationEnds =>
       \A i \in 1..Len(personas) :
         IF personas[i].id = EndedConsolidation.persona.id
            /\ EndedConsolidation.how = "returned"
         THEN personas'[i].longTermMemory = EndedConsolidation.memory
         ELSE personas'[i] = personas[i]]_vars

----------------------------------------------------------------------------
\* C27 (frame): generateSoulReport leaves the annotation list passed by its
\* caller unchanged, with the same elements in the same order.
C27_ListUnchanged ==
  [][callArgs.fn = "generateSoulReport"
       => callArgs'.annotations = callArgs.annotations]_vars

\* C27 (order): bookAnnotations is ordered newest first, also after a report
\* was generated.
C27_StillNewestFirst ==
  callArgs.fn = "generateSoulReport" => IsNewestFirst(callArgs.annotations)

\* C27 (selection): the short-term memory taken from the first N entries
\* holds the N most recent annotations: none left out is newer than one
\* taken.
C27_RecentAreMostRecent ==
  (callArgs.fn = "generateSoulReport" /\ callResult.value.taken) =>
    \A i \in 1..Len(callResult.value.recentAnnos) :
      \A j \in 1..Len(callArgs.annotations) :
        (\A k \in 1..Len(callResult.value.recentAnnos) :
           callResult.value.recentAnnos[k].id # callArgs.annotations[j].id)
          => callArgs.annotations[j].timestamp
               <= callResult.value.recentAnnos[i].timestamp

\* C27: generateSoulReport does not touch its caller's list, so after a
\* report bookAnnotations is still newest first and the short-term memory
\* still takes the most recent annotations.
C27_ReportKeepsOrder ==
  /\ [](C27_StillNewestFirst /\ C27_RecentAreMostRecent)
  /\ C27_ListUnchanged

----------------------------------------------------------------------------
\* this step is the trigger or the completion (success or failure) of an AI
\* request; last'.req is the request
RequestStep ==
  \/ Triggers("handleTriggerAIReply")
  \/ Triggers("executeAIAnnotation")
  \/ Completes("replySuccess")
  \/ Completes("replyFailure")
  \/ Completes("annotateSuccess")
  \/ Completes("annotateFailure")
  \/ Completes("commentReturned")

\* C22 (frame): the trigger and the completion of a request for id A leave
\* every record with another id as it was and where it was among them, and
\* leave the Pending marker of every other id as it was.
C22_OnlyOwnRecordAndMarker ==
  [][RequestStep =>
       /\ RemoveById(annotations', last'.req.id)
            = RemoveById(annotations, last'.req.id)
       /\ processingAnnotationIds' \ {last'.req.id}
            = processingAnnotationIds \ {last'.req.id}]_vars

\* the collection after the completion e of a call, as a function of the
\* collection before it and of the call
AnnosAfter(annos, e) ==
  CASE e.op = "replySuccess" ->
         SetChatHistory(annos, e.req.id, ReplyHistory(e.req, e.text))
    [] e.op = "replyFailure" ->
         SetChatHistory(annos, e.req.id, ReplyHistory(e.req, Apology))
    [] e.op = "annotateSuccess" ->
         ReplaceById(annos, e.req.id, FinalAnno(e.req, e.topic))
    [] e.op = "annotateFailure" -> RemoveById(annos, e.req.id)
    [] OTHER -> annos

\* the ways the call r can end
EndsOf(r) ==
  LET withComment(c) == [r EXCEPT !.kind = "topic", !.comment = c]
  IN  CASE r.kind = "reply" ->
             { Event("replySuccess", r, OrEllipsis(t), <<>>) : t \in ProviderTexts }
               \cup { Event("replyFailure", r, Apology, <<>>) }
        [] r.kind = "topic" ->
             { Event("annotateSuccess", r, r.comment, SummarizeTopic(t)) :
                 t \in TopicTexts }
               \cup { Event("annotateFailure", r, "", <<>>) }
        [] r.kind = "comment" ->
             { Event("annotateSuccess", withComment(OrEllipsis(c)),
                     OrEllipsis(c), SummarizeTopic(t)) :
                 c \in ProviderTexts, t \in TopicTexts }
               \cup { Event("annotateFailure", r, "", <<>>) }
        [] OTHER -> {}

\* C22 (completion): what a completion stores depends on the collection
\* before it and on its own call only.
C22_CompletionOfOwnCall ==
  [][(Completes("replySuccess") \/ Completes("replyFailure")
        \/ Completes("annotateSuccess") \/ Completes("annotateFailure"))
     => /\ annotations' = AnnosAfter(annotations, last')
        /\ processingAnnotationIds' = processingAnnotationIds \ {last'.req.id}]_vars

\* C22 (order): for two calls in flight for different ids, whichever way
\* each ends, the collection after both completions is the same in either
\* order.
C22_SameInEitherOrder ==
  \A r1, r2 \in Calls :
    r1.id # r2.id =>
      \A e1 \in EndsOf(r1), e2 \in EndsOf(r2) :
        AnnosAfter(AnnosAfter(annotations, e1), e2)
          = AnnosAfter(AnnosAfter(annotations, e2), e1)

\* C22: requests in flight for different annotation ids do not interfere:
\* each changes its own record and marker only, and the final collection is
\* the same for every completion order.
C22_NoInterference ==
  /\ C22_OnlyOwnRecordAndMarker
  /\ C22_CompletionOfOwnCall
  /\ []C22_SameInEitherOrder

\* a reply for one annotation has succeeded while an AI call for another
\* annotation is still in flight
C22_Witness ==
  /\ last.op = "replySuccess"
  /\ HasId(annotations, last.req.id)
  /\ \E r \in Calls :
       /\ r.kind \in AIRequestKinds
       /\ r.id # last.req.id
       /\ HasId(annotations, r.id)
       /\ r.id \in processingAnnotationIds

----------------------------------------------------------------------------
\* this step is the completion, with success or with failure, of an AI
\* request whose record is no longer in the collection
CompletesForDeleted ==
  /\ \/ Completes("replySuccess")
     \/ Completes("replyFailure")
     \/ Completes("annotateSuccess")
     \/ Completes("annotateFailure")
  /\ ~HasId(annotations, last'.req.id)

C28_WitnessReply ==
  /\ last.op = "replySuccess"
  /\ ~HasId(annotations, last.req.id)
  /\ last.req.id \notin processingAnnotationIds

----------------------------------------------------------------------------
\* C29: in every reachable state an annotation id is in
\* processingAnnotationIds exactly when an AI request started for it by
\* executeAIAnnotation or handleTriggerAIReply has not yet completed: the
\* marker is not cleared while a request for the id is in flight and is not
\* left set after the last one completed.
C29_MarkerIffInFlight ==
  \A id \in Clock : id \in processingAnnotationIds <=> RequestsInFlight(id) > 0

\* C29 (one direction): a marker is set only while a request for its id is
\* in flight; none is left behind.
C29_NoMarkerLeftSet ==
  \A id \in processingAnnotationIds : RequestsInFlight(id) > 0

----------------------------------------------------------------------------
\* C30: annotation ids are unique within the collection after any sequence
\* of user notes, reactive AI annotations and autonomous scans.
C30_UniqueIds ==
  \A i, j \in 1..Len(annotations) :
    i # j => annotations[i].id # annotations[j].id

\* C30 (what uniqueness would rest on): no record carries an id that the
\* clock has not reached yet.
C30_NoIdAheadOfClock ==
  \A i \in 1..Len(annotations) : annotations[i].id <= now


\* a record of an autonomous scan
IsScanRecord(a) == a.author = "ai" /\ ~a.hasChat

\* C30 (across milliseconds): two results of one scan carry the ids t and
\* t + 1; no note of the user shares the id of the second.
C30_NoteClearOfScanIds ==
  \A k \in 1..(Len(annotations) - 1) :
    (/\ IsScanRecord(annotations[k])
     /\ IsScanRecord(annotations[k + 1])
     /\ annotations[k + 1].id = annotations[k].id + 1)
      => \A i \in 1..Len(annotations) :
           annotations[i].author = "user"
             => annotations[i].id # annotations[k + 1].id

============================================================================
